---------------------------- MODULE Spec2Model ----------------------------
(***************************************************************************)
(* A model of the certificate rotation service: the sync cycle of          *)
(* CertificateScheduler, the certificate store of CertificateMonitor, the  *)
(* file observer thread that bridges file events into the event loop, and  *)
(* the reload fallback chain of HAProxyClient.                             *)
(*                                                                         *)
(* Text (PEM data, file contents) is a sequence of tokens, so that         *)
(* concatenation and strip() are computed and not assumed.  Every `await`  *)
(* of the source is a point where another task of the event loop may run.  *)
(***************************************************************************)
EXTENDS Integers, Sequences, FiniteSets, TLC

(***************************************************************************)
(* Bounds of the model.                                                    *)
(***************************************************************************)
\* direct calls of reload_certificates
MaxReloads == 3
\* sync cycles begun
MaxCycles == 2
\* file events waiting for the observer thread
MaxEvents == 1
\* calls of start() that start the scheduler
MaxStarts == 2
\* faults injected: a write of save_certificate or a rescan that raises
MaxFaults == 1
\* entries the error list may hold when the model begins
MaxErrors == 5

(***************************************************************************)
(* Values.  A piece of text is a sequence of tokens; Python's None and a   *)
(* key missing from a dict are sequences too, so that any two values can   *)
(* be compared.                                                            *)
(***************************************************************************)
None == <<"None">>
Missing == <<"Missing">>
NL == "NL"
Empty == << >>

\* one PEM certificate block each; "H" is the block of a chain certificate
CertTokens == {"A", "B", "H"}
CertA == <<"A">>
CertB == <<"B">>
CertANewline == <<"A", NL>>
Garbage == <<"G">>
ChainH == <<"H">>
KeyK == <<"K">>
KeyL == <<"L">>
\* the content of a file that open(..., 'r').read() cannot decode
Binary == <<"Binary">>

\* Python truthiness of an optional string
Truthy(v) == v \notin {None, Missing, Empty}

(***************************************************************************)
(* str.strip(): leading and trailing whitespace removed.                   *)
(***************************************************************************)
RECURSIVE LStrip(_)
LStrip(t) == IF t = << >> THEN t
             ELSE IF Head(t) = NL THEN LStrip(Tail(t)) ELSE t

RECURSIVE RStrip(_)
RStrip(t) == IF t = << >> THEN t
             ELSE IF t[Len(t)] = NL THEN RStrip(SubSeq(t, 1, Len(t) - 1)) ELSE t

Strip(t) == RStrip(LStrip(t))

(***************************************************************************)
(* HAProxyClient                                                           *)
(***************************************************************************)
HttpOutcomes == {"status_200", "status_500", "timeout", "error"}
SocketOutcomes == {"response", "empty_response", "undecodable_response",
                   "connect_timeout", "not_found", "connect_error"}

\* _reload_via_http: success iff the POST answers 200; a timeout or any other
\* exception is caught and gives False
ReloadViaHttp(httpOut) == httpOut = "status_200"

\* a _reload_via_socket that succeeds on whatever bytes it received
ReloadViaSocketAnyResponse(sockOut) ==
    sockOut \in {"response", "empty_response", "undecodable_response"}

\* _reload_via_socket: connect, send, recv(4096).decode(); True when none of
\* them raised.  The bytes received are decoded as UTF-8 inside the try block.
ReloadViaSocket(sockOut) == sockOut \in {"response", "empty_response"}

\* a reload_certificates that goes on to the socket after a successful POST
ReloadCertificatesNoShortCircuit(url, sock, httpOut, sockOut) ==
    LET tryHttp == Truthy(url)
        httpOk == tryHttp /\ ReloadViaHttp(httpOut)
        trySock == Truthy(sock)
        sockOk == trySock /\ ReloadViaSocket(sockOut)
    IN [attempts |-> (IF tryHttp THEN << <<"http", httpOut>> >> ELSE << >>)
                     \o (IF trySock THEN << <<"socket", sockOut>> >> ELSE << >>),
        result |-> httpOk \/ sockOk \/ (~Truthy(url) /\ ~Truthy(sock))]

\* a reload_certificates that leaves the socket alone once the POST was tried
ReloadCertificatesNoFallThrough(url, sock, httpOut, sockOut) ==
    LET tryHttp == Truthy(url)
        httpOk == tryHttp /\ ReloadViaHttp(httpOut)
        trySock == Truthy(sock) /\ ~tryHttp
        sockOk == trySock /\ ReloadViaSocket(sockOut)
    IN [attempts |-> (IF tryHttp THEN << <<"http", httpOut>> >> ELSE << >>)
                     \o (IF trySock THEN << <<"socket", sockOut>> >> ELSE << >>),
        result |-> httpOk \/ sockOk \/ (~Truthy(url) /\ ~Truthy(sock))]

\* a reload_certificates without lines 54-56: nothing configured is a failure
ReloadCertificatesUnconfiguredFails(url, sock, httpOut, sockOut) ==
    LET tryHttp == Truthy(url)
        httpOk == tryHttp /\ ReloadViaHttp(httpOut)
        trySock == Truthy(sock) /\ ~httpOk
        sockOk == trySock /\ ReloadViaSocket(sockOut)
    IN [attempts |-> (IF tryHttp THEN << <<"http", httpOut>> >> ELSE << >>)
                     \o (IF trySock THEN << <<"socket", sockOut>> >> ELSE << >>),
        result |-> httpOk \/ sockOk]

\* reload_certificates: the network calls made, in order, and the value returned
ReloadCertificates(url, sock, httpOut, sockOut) ==
    LET tryHttp == Truthy(url)
        httpOk == tryHttp /\ ReloadViaHttp(httpOut)
        trySock == Truthy(sock) /\ ~httpOk
        sockOk == trySock /\ ReloadViaSocket(sockOut)
    IN [attempts |-> (IF tryHttp THEN << <<"http", httpOut>> >> ELSE << >>)
                     \o (IF trySock THEN << <<"socket", sockOut>> >> ELSE << >>),
        result |-> httpOk \/ sockOk \/ (~Truthy(url) /\ ~Truthy(sock))]

(***************************************************************************)
(* SecretsManagerClient                                                    *)
(*                                                                         *)
(* A secret (the dict get_secret_value returns) is a record                *)
(*   [secret_name, name, last_changed_date, domain_name,                   *)
(*    certificate, private_key, certificate_chain]                         *)
(* where name and last_changed_date are the _metadata entries and a field  *)
(* the JSON does not hold is Missing.  Names are sequences of characters.  *)
(***************************************************************************)
Secret(sn, nm, lc, dom, cert, key, chain) ==
    [secret_name |-> sn, name |-> nm, last_changed_date |-> lc,
     domain_name |-> dom, certificate |-> cert, private_key |-> key,
     certificate_chain |-> chain]

\* what the remote call for one name may do: answer with a secret, or fail
FetchOk(d) == [kind |-> "ok", data |-> d]
FetchFail(k) == [kind |-> k, data |-> Secret(Empty, None, None, Missing, Missing, Missing, Missing)]
\* kinds for which get_secret_value returns None
NoneKinds == {"ResourceNotFoundException", "InvalidRequestException",
              "InvalidParameterException", "no_secret_string", "invalid_json"}
\* kinds for which get_secret_value raises
RaiseKinds == {"AccessDeniedException", "connection_error"}

\* a get_secret_value that raises the ResourceNotFoundException too
GetSecretValueNotFoundRaises(o) ==
    IF o.kind = "ok" THEN "value"
    ELSE IF o.kind \in NoneKinds \ {"ResourceNotFoundException"} THEN "none"
    ELSE "raise"

\* get_secret_value: "value" (o.data is returned), "none" or "raise"
GetSecretValue(o) ==
    IF o.kind = "ok" THEN "value"
    ELSE IF o.kind \in NoneKinds THEN "none"
    ELSE "raise"

\* get_monitored_secrets: the secrets of the names of settings.secrets_names_list,
\* in that order, without those whose fetch returned None; an exception of one
\* fetch leaves the loop and the method
RECURSIVE GetMonitoredSecrets(_, _)
GetMonitoredSecrets(names, outcome) ==
    IF names = << >> THEN [raised |-> FALSE, secrets |-> << >>]
    ELSE LET o == outcome[Head(names)]
             r == GetSecretValue(o)
             rest == GetMonitoredSecrets(Tail(names), outcome)
         IN IF r = "raise" THEN [raised |-> TRUE, secrets |-> << >>]
            ELSE IF rest.raised THEN rest
            ELSE IF r = "none" THEN rest
            ELSE [raised |-> FALSE, secrets |-> <<o.data>> \o rest.secrets]

\* the names get_monitored_secrets asks the store for, in order: the loop
\* of lines 114-128 ends at the first fetch that raises
RECURSIVE MonitoredFetches(_, _)
MonitoredFetches(names, outcome) ==
    IF names = << >> THEN << >>
    ELSE IF GetSecretValue(outcome[Head(names)]) = "raise" THEN <<Head(names)>>
    ELSE <<Head(names)>> \o MonitoredFetches(Tail(names), outcome)

\* a tag of a secret; an entry of the store's listing: its Name, the Tags
\* describe_secret answers for it, and how describe_secret ends
Tag(k, v) == [Key |-> k, Value |-> v]
ListEntry(nm, tags, d) == [Name |-> nm, Tags |-> tags, describe |-> d]
ListOk(es) == [kind |-> "ok", entries |-> es]
ListFail == [kind |-> "error", entries |-> << >>]

\* list_secrets(include_tags=True): the entries of the listing with the tags
\* describe_secret gave; a ClientError of describe_secret leaves the entry
\* with no tags; an error of the listing itself is raised
RECURSIVE DescribeAll(_)
DescribeAll(es) ==
    IF es = << >> THEN << >>
    ELSE <<[Name |-> Head(es).Name,
            Tags |-> IF Head(es).describe = "ok" THEN Head(es).Tags ELSE << >>]>>
         \o DescribeAll(Tail(es))

ListSecrets(lo) ==
    IF lo.kind = "ok" THEN [raised |-> FALSE, secrets |-> DescribeAll(lo.entries)]
    ELSE [raised |-> TRUE, secrets |-> << >>]

\* a has_matching_tag that compares the key alone
HasMatchingTagKeyOnly(tags, k, v) == \E i \in 1..Len(tags) : tags[i].Key = k

\* lines 193-197: some tag of the secret has that key and that value
HasMatchingTag(tags, k, v) ==
    \E i \in 1..Len(tags) : tags[i].Key = k /\ tags[i].Value = v

\* lines 190-213: the loop of get_secrets_by_tag over the listed secrets; the
\* full data is fetched for the secrets with a matching tag and a name, a
\* fetch that returns None is passed over, a fetch that raises ends the loop
\* and the method.  fetched holds the names asked of the store, in order.
RECURSIVE FilterByTag(_, _, _, _)
FilterByTag(es, k, v, outcome) ==
    IF es = << >> THEN [raised |-> FALSE, secrets |-> << >>, fetched |-> << >>]
    ELSE LET e == Head(es)
             rest == FilterByTag(Tail(es), k, v, outcome)
         IN IF ~(HasMatchingTag(e.Tags, k, v) /\ Truthy(e.Name)) THEN rest
            ELSE LET r == GetSecretValue(outcome[e.Name])
                 IN IF r = "raise"
                    THEN [raised |-> TRUE, secrets |-> << >>, fetched |-> <<e.Name>>]
                    ELSE [raised |-> rest.raised,
                          secrets |-> IF rest.raised THEN << >>
                                      ELSE IF r = "none" THEN rest.secrets
                                      ELSE <<outcome[e.Name].data>> \o rest.secrets,
                          fetched |-> <<e.Name>> \o rest.fetched]

\* get_secrets_by_tag: the listing, then the loop; listed tells whether the
\* store was asked for its listing
GetSecretsByTag(k, v, lo, outcome) ==
    LET ls == ListSecrets(lo)
        f == FilterByTag(ls.secrets, k, v, outcome)
    IN IF ls.raised
       THEN [raised |-> TRUE, secrets |-> << >>, listed |-> TRUE, fetched |-> << >>]
       ELSE [raised |-> f.raised, secrets |-> f.secrets, listed |-> TRUE, fetched |-> f.fetched]

\* a get_secrets_by_env_tag that asks for the key alone
GetSecretsByEnvTagKeyOnly(tk, tv, lo, outcome) ==
    IF ~Truthy(tk)
    THEN [raised |-> FALSE, secrets |-> << >>, listed |-> FALSE, fetched |-> << >>]
    ELSE GetSecretsByTag(tk, tv, lo, outcome)

\* get_secrets_by_env_tag: nothing is asked of the store unless settings.tag_key
\* and settings.tag_value are both set
GetSecretsByEnvTag(tk, tv, lo, outcome) ==
    IF ~Truthy(tk) \/ ~Truthy(tv)
    THEN [raised |-> FALSE, secrets |-> << >>, listed |-> FALSE, fetched |-> << >>]
    ELSE GetSecretsByTag(tk, tv, lo, outcome)

\* str.replace of one character by a piece of text
RECURSIVE Replace(_, _, _)
Replace(t, from, to) ==
    IF t = << >> THEN t
    ELSE (IF Head(t) = from THEN to ELSE <<Head(t)>>) \o Replace(Tail(t), from, to)

\* get_certificate_name_from_secret
GetCertificateNameFromSecret(d) ==
    IF Truthy(d.name)
    THEN Replace(Replace(d.name, "/", <<"_">>), ":", <<"_">>)
    ELSE IF Truthy(d.domain_name)
    THEN Replace(Replace(d.domain_name, "*", <<"wildcard">>), ".", <<"_">>)
    ELSE <<"unknown_cert">>

\* a validate_certificate_secret whose list of required fields is
\* ['certificate'] alone
ValidateCertificateSecretCertificateOnly(d) ==
    d.certificate # Missing /\ Truthy(d.certificate)

\* validate_certificate_secret: both fields present and not empty
ValidateCertificateSecret(d) ==
    /\ d.certificate # Missing /\ Truthy(d.certificate)
    /\ d.private_key # Missing /\ Truthy(d.private_key)

\* extract_certificate_data: the chain defaults to '' when the field is missing
ExtractChain(d) == IF d.certificate_chain = Missing THEN Empty ELSE d.certificate_chain

(***************************************************************************)
(* CertificateMonitor: the certificate directory and its index.            *)
(*                                                                         *)
(* The directory is two functions from file stems to contents, <stem>.pem  *)
(* and <stem>.key; a stem outside the domain is a file that does not       *)
(* exist.  The index self.certificates is a function from stems (the path  *)
(* of <stem>.pem) to CertificateInfo records.                              *)
(***************************************************************************)
Put(f, k, v) == [x \in DOMAIN f \cup {k} |-> IF x = k THEN v ELSE f[x]]

\* x509.load_pem_x509_certificate: the first certificate block of the text,
\* "unparsed" when there is none
RECURSIVE FirstCert(_)
FirstCert(t) ==
    IF t = << >> THEN "unparsed"
    ELSE IF Head(t) \in CertTokens THEN Head(t) ELSE FirstCert(Tail(t))

\* CertificateInfo(path, content, key_data): _parse_certificate catches the
\* parse error, so the object exists whether or not the text parses
CertificateInfo(content, keyData) ==
    [cert_data |-> content, key_data |-> keyData, serial_number |-> FirstCert(content)]

\* _load_certificate_file
LoadCertificateFile(cf, kf, s) ==
    CertificateInfo(cf[s], IF s \in DOMAIN kf THEN kf[s] ELSE None)

\* _load_certificate_file, lines 176-185: the read of <stem>.pem, and of
\* <stem>.key when it exists, raises nothing
Loadable(cf, kf, s) == cf[s] # Binary /\ (s \in DOMAIN kf => kf[s] # Binary)

\* the text written to <name>.pem
PemContent(cert, chain) == cert \o (IF Truthy(chain) THEN <<NL>> \o chain ELSE << >>)

WriteFaults == {"none", "cert_open", "key_open", "key_write", "chmod"}

\* save_certificate: open(cert_file, 'w') and write, open(key_file, 'w') and
\* write, chmod both; an exception of any of them is logged and raised again,
\* and what was written before it stays written.  open(..., 'w') truncates.
SaveCertificate(cf, kf, name, cert, key, chain, fault) ==
    LET written == Put(cf, name, PemContent(cert, chain))
    IN CASE fault = "none" -> [cert |-> written, key |-> Put(kf, name, key), raised |-> FALSE]
         [] fault = "cert_open" -> [cert |-> cf, key |-> kf, raised |-> TRUE]
         [] fault = "key_open" -> [cert |-> written, key |-> kf, raised |-> TRUE]
         [] fault = "key_write" -> [cert |-> written, key |-> Put(kf, name, Empty), raised |-> TRUE]
         [] OTHER -> [cert |-> written, key |-> Put(kf, name, key), raised |-> TRUE]

(***************************************************************************)
(* CertificateScheduler: the decision and the install of one secret.       *)
(***************************************************************************)
\* a _certificate_needs_update without the comparison of lines 226-233
CertificateNeedsUpdateIgnoresContent(cf, index, d, name) ==
    IF name \notin DOMAIN cf THEN TRUE
    ELSE IF name \notin DOMAIN index THEN TRUE
    ELSE Truthy(d.last_changed_date)

\* _certificate_needs_update
CertificateNeedsUpdate(cf, index, d, name) ==
    IF name \notin DOMAIN cf THEN TRUE
    ELSE IF name \notin DOMAIN index THEN TRUE
    ELSE IF Truthy(d.last_changed_date) THEN TRUE
    ELSE ValidateCertificateSecret(d)
         /\ Strip(d.certificate) # Strip(index[name].cert_data)

\* a _sync_single_certificate without the return of lines 165-167
SyncSingleCertificateAlwaysSaves(cf, kf, index, d, fault) ==
    LET name == GetCertificateNameFromSecret(d)
        needs == CertificateNeedsUpdate(cf, index, d, name)
        r == SaveCertificate(cf, kf, name, d.certificate, d.private_key, ExtractChain(d), fault)
    IN IF ~ValidateCertificateSecret(d)
       THEN [cert |-> cf, key |-> kf, updated |-> FALSE, raised |-> FALSE,
             needs |-> needs, saved |-> "no", wrote |-> FALSE]
       ELSE [cert |-> r.cert, key |-> r.key, updated |-> ~r.raised, raised |-> FALSE,
             needs |-> needs, saved |-> IF r.raised THEN "failed" ELSE "ok",
             wrote |-> fault # "cert_open"]

\* _sync_single_certificate: the files after it, the value it returns
\* (updated), whether it raised, and for the record whether an update was
\* decided, whether save_certificate was called and how it ended, and whether
\* the .pem file was written to
SyncSingleCertificate(cf, kf, index, d, fault) ==
    LET name == GetCertificateNameFromSecret(d)
        needs == CertificateNeedsUpdate(cf, index, d, name)
        r == SaveCertificate(cf, kf, name, d.certificate, d.private_key, ExtractChain(d), fault)
    IN IF ~needs \/ ~ValidateCertificateSecret(d)
       THEN [cert |-> cf, key |-> kf, updated |-> FALSE, raised |-> FALSE,
             needs |-> needs, saved |-> "no", wrote |-> FALSE]
       ELSE [cert |-> r.cert, key |-> r.key, updated |-> ~r.raised, raised |-> FALSE,
             needs |-> TRUE, saved |-> IF r.raised THEN "failed" ELSE "ok",
             wrote |-> fault # "cert_open"]

(***************************************************************************)
(* The state.                                                              *)
(***************************************************************************)
VARIABLES
    \* settings: haproxy_reload_url, haproxy_stats_socket, secrets_names_list,
    \* tag_key, tag_value
    reload_url, stats_socket, secrets_names_list, tag_key, tag_value,
    \* the secret store: for each monitored name, what a fetch of it may answer;
    \* the proxy: what its HTTP endpoint and its socket may answer; listing: what
    \* a listing of the secret store may answer
    world, proxy, listing,
    \* CertificateScheduler
    is_running, sync_in_progress, last_sync_time, sync_errors, event_loop,
    \* the AsyncIOScheduler is started and holds the interval job
    job_scheduled,
    \* CertificateMonitor: certificates (the index), observer, change_callbacks
    certificates, observer, change_callbacks,
    \* the certificate directory: <stem>.pem and <stem>.key
    certFile, keyFile,
    \* the tasks of the event loop that may run sync_certificates: where each
    \* is, and the locals of its call
    pc, cyc,
    \* the caller of start() and stop()
    lifePc,
    \* the observer thread: where it is, the file events waiting for it, and
    \* the coroutines it handed to the event loop that have not run yet
    obsPc, fsEvents, loopQueue,
    \* counters that bound the run: cycles started, faults injected, direct
    \* calls of the reload
    cycles, faults, reloadCalls,
    \* records for the properties: lastCall, lastReload and lastBridge tell what
    \* the step just taken did; lastCycle and lastSave tell of the cycle and
    \* of the install begun last
    lastCall, lastCycle, lastReload, lastBridge, lastSave,
    \* the call of the secrets client made last from outside a cycle
    lastClient

cfgVars == <<reload_url, stats_socket, secrets_names_list, tag_key, tag_value, world, proxy, listing>>
schedVars == <<is_running, sync_in_progress, last_sync_time, sync_errors, event_loop, job_scheduled>>
monVars == <<certificates, observer, change_callbacks>>
diskVars == <<certFile, keyFile>>
taskVars == <<pc, cyc, lifePc>>
obsVars == <<obsPc, fsEvents, loopQueue>>
countVars == <<cycles, faults, reloadCalls>>
logVars == <<lastCall, lastCycle, lastReload, lastBridge, lastSave, lastClient>>
vars == <<cfgVars, schedVars, monVars, diskVars, taskVars, obsVars, countVars, logVars>>

Tasks == {"init", "timer", "manual"}
EmptyMap == [x \in {} |-> Empty]
IdleCyc == [secrets |-> << >>, i |-> 0, certificates_updated |-> FALSE, n |-> 0]
\* the record of the cycle in progress or, when none is, of the last one: the
\* methods of the secrets client the cycle called (discovery), what the store
\* answered for each name (fetch), the secrets
\* fetched (remote) and those of the cycle before (prevRemote), one entry per
\* secret handled (log), the errors appended to sync_errors, and how the
\* cycle ended
NoCycle == [n |-> 0, task |-> "none", prevRemote |-> << >>, prevExit |-> "none",
            discovery |-> << >>, fetch |-> EmptyMap, remote |-> << >>, log |-> << >>, errors |-> << >>,
            success |-> FALSE, exit |-> "none", reloaded |-> FALSE]
NoCall == [task |-> "none", outcome |-> "none"]
NoReload == [by |-> "none", attempts |-> << >>, result |-> FALSE]
NoBridge == [callbacks |-> 0, scheduled |-> 0, dropped |-> 0]
NoClient == [method |-> "none", key |-> None, value |-> None, names |-> << >>,
             lo |-> ListFail, outcome |-> EmptyMap,
             raised |-> FALSE, secrets |-> << >>, listed |-> FALSE, fetched |-> << >>]
NoSave == [name |-> Empty, fault |-> "none", certBefore |-> Missing, keyBefore |-> Missing,
           certAfter |-> Missing, keyAfter |-> Missing, updated |-> FALSE]
FileOf(f, s) == IF s \in DOMAIN f THEN f[s] ELSE Missing

\* a scan_certificates without the clear() of line 159
ScanCertificatesNoClear(cf, kf) ==
    [s \in DOMAIN certificates \cup {x \in DOMAIN cf : Loadable(cf, kf, x)} |->
        IF s \in DOMAIN cf /\ Loadable(cf, kf, s)
        THEN LoadCertificateFile(cf, kf, s)
        ELSE certificates[s]]

\* scan_certificates run to its end by one thread alone: the index is cleared
\* and every *.pem file loaded; a file whose load raises is logged and left out
ScanCertificates(cf, kf) ==
    [s \in {x \in DOMAIN cf : Loadable(cf, kf, x)} |-> LoadCertificateFile(cf, kf, s)]

\* a step that is no call of sync_certificates, no reload, no notification
NoCallNow == lastCall' = NoCall
NoReloadNow == lastReload' = NoReload
NoBridgeNow == lastBridge' = NoBridge

\* the state a CertificateScheduler and an HAProxyClient are constructed in
InitEngine ==
    /\ is_running = FALSE /\ sync_in_progress = FALSE /\ last_sync_time = 0
    /\ sync_errors = << >> /\ event_loop = FALSE /\ job_scheduled = FALSE
    /\ certificates = EmptyMap /\ observer = FALSE /\ change_callbacks = 0
    /\ pc = [t \in Tasks |-> "idle"] /\ cyc = [t \in Tasks |-> IdleCyc]
    /\ lifePc = "idle"
    /\ obsPc = "idle" /\ fsEvents = 0 /\ loopQueue = 0
    /\ cycles = 0 /\ faults = 0 /\ reloadCalls = 0
    /\ lastCall = NoCall
    /\ lastCycle = NoCycle
    /\ lastReload = NoReload
    /\ lastBridge = NoBridge
    /\ lastSave = NoSave
    /\ lastClient = NoClient

\* settings without TAG_KEY and TAG_VALUE (config.py, lines 27-34), and a
\* store whose listing is refused
NoTags == tag_key = None /\ tag_value = None /\ listing = {ListFail}

(***************************************************************************)
(* haproxy_client.reload_certificates() called by `by`; the answers of the *)
(* proxy are drawn from httpOuts and sockOuts.                             *)
(***************************************************************************)
DoReload(by, httpOuts, sockOuts) ==
    \E h \in httpOuts, so \in sockOuts :
        LET r == ReloadCertificates(reload_url, stats_socket, h, so)
        IN lastReload' = [by |-> by, attempts |-> r.attempts, result |-> r.result]

\* a caller of the module-level client outside a sync cycle
ReloadCall ==
    /\ reloadCalls < MaxReloads
    /\ reloadCalls' = reloadCalls + 1
    /\ DoReload("direct", proxy.http, proxy.socket)
    /\ UNCHANGED <<cfgVars, lastClient, schedVars, monVars, diskVars, taskVars, obsVars>>
    /\ UNCHANGED <<cycles, faults>>
    /\ UNCHANGED <<lastCycle, lastSave>>
    /\ NoCallNow /\ NoBridgeNow

Url == <<"http://haproxy/reload">>
Sock == <<"/var/run/haproxy.sock">>

\* the client under each configuration of the two transports
InitReload ==
    /\ InitEngine
    /\ reload_url \in {None, Empty, Url}
    /\ stats_socket \in {None, Empty, Sock}
    /\ proxy = [http |-> HttpOutcomes, socket |-> SocketOutcomes]
    /\ secrets_names_list = << >> /\ world = EmptyMap
    /\ NoTags
    /\ certFile = EmptyMap /\ keyFile = EmptyMap

NextReload == ReloadCall

SpecReload == InitReload /\ [][NextReload]_vars

(***************************************************************************)
(* sync_certificates.  A task is at "idle" (not in the method), "fetch"    *)
(* (awaiting get_monitored_secrets), "sync" (awaiting                      *)
(* _sync_single_certificate of secret number cyc[t].i), "reload" (awaiting *)
(* reload_certificates) or "cancelled" (its future was cancelled while it  *)
(* awaited).                                                               *)
(***************************************************************************)
\* one more file event for the observer; unread events beyond MaxEvents
\* coalesce
Enqueue(n) == IF n < MaxEvents THEN n + 1 ELSE n

\* one answer of the secret store per monitored name
RECURSIVE Outcomes(_, _)
Outcomes(names, w) ==
    IF names = << >> THEN {EmptyMap}
    ELSE {(Head(names) :> o) @@ rest : o \in w[Head(names)], rest \in Outcomes(Tail(names), w)}

Begin(t) ==
    /\ cycles < MaxCycles
    /\ sync_in_progress' = TRUE
    /\ cycles' = cycles + 1
    /\ cyc' = [cyc EXCEPT ![t] = [IdleCyc EXCEPT !.n = cycles + 1]]
    /\ pc' = [pc EXCEPT ![t] = "fetch"]
    /\ lastCall' = [task |-> t, outcome |-> "started"]
    /\ lastCycle' = [NoCycle EXCEPT !.n = cycles + 1, !.task = t,
                                    !.prevRemote = lastCycle.remote,
                                    !.prevExit = lastCycle.exit,
                                    !.exit = "running"]
    /\ lastSave' = NoSave

\* a sync_certificates without the guard of lines 102-104
SyncCertificatesNoGuard(t) == Begin(t)

\* lines 102-107: the call of sync_certificates by task t, up to its first await
SyncCertificates(t) ==
    IF sync_in_progress
    THEN /\ lastCall' = [task |-> t, outcome |-> "skipped"]
         /\ pc' = [pc EXCEPT ![t] = "idle"]
         /\ UNCHANGED <<sync_in_progress, cyc, cycles, lastCycle, lastSave>>
    ELSE Begin(t)

\* an end of sync_certificates whose except block appends nothing to
\* sync_errors
FinishRecordsNothing(t, c, L, errs, exit, success, reloaded) ==
    /\ pc' = [pc EXCEPT ![t] = "idle"]
    /\ cyc' = [cyc EXCEPT ![t] = IdleCyc]
    /\ sync_errors' = sync_errors
    /\ sync_in_progress' = FALSE
    /\ last_sync_time' = IF success THEN c.n ELSE last_sync_time
    /\ lastCycle' = [L EXCEPT !.errors = @ \o errs, !.success = success,
                              !.exit = exit, !.reloaded = reloaded]

\* an end of sync_certificates that clears the flag on success only, not in a
\* finally block
FinishNoFinally(t, c, L, errs, exit, success, reloaded) ==
    /\ pc' = [pc EXCEPT ![t] = "idle"]
    /\ cyc' = [cyc EXCEPT ![t] = IdleCyc]
    /\ sync_errors' = sync_errors \o errs
    /\ sync_in_progress' = ~success
    /\ last_sync_time' = IF success THEN c.n ELSE last_sync_time
    /\ lastCycle' = [L EXCEPT !.errors = @ \o errs, !.success = success,
                              !.exit = exit, !.reloaded = reloaded]

\* an end of sync_certificates that sets last_sync_time in the finally block
FinishStampsAlways(t, c, L, errs, exit, success, reloaded) ==
    /\ pc' = [pc EXCEPT ![t] = "idle"]
    /\ cyc' = [cyc EXCEPT ![t] = IdleCyc]
    /\ sync_errors' = sync_errors \o errs
    /\ sync_in_progress' = FALSE
    /\ last_sync_time' = c.n
    /\ lastCycle' = [L EXCEPT !.errors = @ \o errs, !.success = success,
                              !.exit = exit, !.reloaded = reloaded]

\* lines 139-151: the end of the method on each path.  errs is what the except
\* block appends; success is the local of that name; the finally block clears
\* sync_in_progress
Finish(t, c, L, errs, exit, success, reloaded) ==
    /\ pc' = [pc EXCEPT ![t] = "idle"]
    /\ cyc' = [cyc EXCEPT ![t] = IdleCyc]
    /\ sync_errors' = sync_errors \o errs
    /\ sync_in_progress' = FALSE
    /\ last_sync_time' = IF success THEN c.n ELSE last_sync_time
    /\ lastCycle' = [L EXCEPT !.errors = @ \o errs, !.success = success,
                              !.exit = exit, !.reloaded = reloaded]

\* the method goes on to its next await
Continue(t, c, L, to, errs) ==
    /\ pc' = [pc EXCEPT ![t] = to]
    /\ cyc' = [cyc EXCEPT ![t] = c]
    /\ sync_errors' = sync_errors \o errs
    /\ lastCycle' = [L EXCEPT !.errors = @ \o errs]
    /\ UNCHANGED <<sync_in_progress, last_sync_time>>

ScanFaults == {"none", "scan_raises"}

\* the entries line 145 appends, f"Sync failed: {e}", by where e was raised
FetchError == <<"Sync failed", "get_monitored_secrets">>
ScanError == <<"Sync failed", "scan_certificates">>

\* an end of the loop that awaits the reload whether or not a secret was
\* installed
AfterLoopAlwaysReloads(t, c, L, cf, kf, errs, sf, fc) ==
    /\ sf = "none" \/ fc < MaxFaults
    /\ faults' = IF sf = "none" THEN fc ELSE fc + 1
    /\ CASE sf = "scan_raises" ->
              /\ certificates' = EmptyMap
              /\ Finish(t, c, L, errs \o <<ScanError>>, "failed", FALSE, FALSE)
         [] OTHER ->
              /\ certificates' = ScanCertificates(cf, kf)
              /\ Continue(t, c, L, "reload", errs)

\* lines 128-137: after the loop over the secrets the store is scanned again;
\* then the method awaits the reload, or ends.  The scan clears the index
\* before it touches the directory (exists() and glob() raise OSError on a
\* directory that cannot be read), so a scan that raises leaves the index
\* empty.
AfterLoop(t, c, L, cf, kf, errs, sf, fc) ==
    /\ sf = "none" \/ fc < MaxFaults
    /\ faults' = IF sf = "none" THEN fc ELSE fc + 1
    /\ CASE sf = "scan_raises" ->
              /\ certificates' = EmptyMap
              /\ Finish(t, c, L, errs \o <<ScanError>>, "failed", FALSE, FALSE)
         [] OTHER ->
              /\ certificates' = ScanCertificates(cf, kf)
              /\ IF c.certificates_updated
                 THEN Continue(t, c, L, "reload", errs)
                 ELSE Finish(t, c, L, errs, "success", TRUE, FALSE)

\* lines 113-115 and what follows the await: the secrets are fetched
FetchStep(t) ==
    /\ pc[t] = "fetch"
    /\ \E o \in Outcomes(secrets_names_list, world), sf \in ScanFaults :
         LET r == GetMonitoredSecrets(secrets_names_list, o)
             c == [cyc[t] EXCEPT !.secrets = r.secrets, !.i = 1]
             D == [lastCycle EXCEPT !.discovery = <<"get_monitored_secrets">>, !.fetch = o]
             L == [D EXCEPT !.remote = r.secrets]
         IN IF r.raised
            THEN /\ sf = "none"
                 /\ Finish(t, cyc[t], D, <<FetchError>>, "failed", FALSE, FALSE)
                 /\ UNCHANGED <<certificates, faults>>
            ELSE IF r.secrets = << >>
            THEN AfterLoop(t, c, L, certFile, keyFile, << >>, sf, faults)
            ELSE /\ sf = "none"
                 /\ Continue(t, c, L, "sync", << >>)
                 /\ UNCHANGED <<certificates, faults>>
    /\ UNCHANGED <<cfgVars, lastClient, is_running, event_loop, job_scheduled, observer, change_callbacks>>
    /\ UNCHANGED <<diskVars, lifePc, obsVars, cycles, reloadCalls>>
    /\ UNCHANGED <<lastSave>>
    /\ NoCallNow /\ NoReloadNow /\ NoBridgeNow

\* lines 119-126: one turn of the loop, and after the last one lines 128-137
SyncOne(t) ==
    /\ pc[t] = "sync"
    /\ \E fault \in WriteFaults, sf \in ScanFaults :
         LET c == cyc[t]
             d == c.secrets[c.i]
             name == GetCertificateNameFromSecret(d)
             r == SyncSingleCertificate(certFile, keyFile, certificates, d, fault)
             errs == IF r.raised THEN << <<"Sync error for", d.secret_name>> >> ELSE << >>
             entry == [secret_name |-> d.secret_name, name |-> name,
                       hadFile |-> name \in DOMAIN certFile,
                       hadRecord |-> name \in DOMAIN certificates,
                       local |-> IF name \in DOMAIN certificates
                                 THEN certificates[name]
                                 ELSE CertificateInfo(Missing, Missing),
                       needs |-> r.needs, saved |-> r.saved, updated |-> r.updated,
                       raised |-> r.raised]
             c2 == [c EXCEPT !.i = c.i + 1,
                             !.certificates_updated = c.certificates_updated \/ r.updated]
             L == [lastCycle EXCEPT !.log = Append(@, entry)]
             fc == IF fault = "none" THEN faults ELSE faults + 1
         IN /\ fault = "none" \/ (r.saved # "no" /\ faults < MaxFaults)
            /\ certFile' = r.cert
            /\ keyFile' = r.key
            /\ fsEvents' = IF r.wrote /\ observer THEN Enqueue(fsEvents) ELSE fsEvents
            /\ lastSave' = IF r.saved = "no" THEN lastSave
                           ELSE [name |-> name, fault |-> fault,
                                 certBefore |-> FileOf(certFile, name),
                                 keyBefore |-> FileOf(keyFile, name),
                                 certAfter |-> FileOf(r.cert, name),
                                 keyAfter |-> FileOf(r.key, name),
                                 updated |-> r.updated]
            /\ IF c.i = Len(c.secrets)
               THEN AfterLoop(t, c2, L, r.cert, r.key, errs, sf, fc)
               ELSE /\ sf = "none"
                    /\ faults' = fc
                    /\ Continue(t, c2, L, "sync", errs)
                    /\ UNCHANGED certificates
    /\ UNCHANGED <<cfgVars, lastClient, is_running, event_loop, job_scheduled, observer, change_callbacks>>
    /\ UNCHANGED <<lifePc, obsPc, loopQueue, cycles, reloadCalls>>
    /\ NoCallNow /\ NoReloadNow /\ NoBridgeNow

\* a sync_certificates that raises when reload_certificates returned False
ReloadStepFailsCycle(t) ==
    /\ pc[t] = "reload"
    /\ DoReload("cycle", proxy.http, proxy.socket)
    /\ IF lastReload'.result
       THEN Finish(t, cyc[t], lastCycle, << >>, "success", TRUE, TRUE)
       ELSE Finish(t, cyc[t], lastCycle, << <<"Sync failed", "reload_certificates">> >>,
                   "failed", FALSE, TRUE)
    /\ UNCHANGED <<cfgVars, lastClient, is_running, event_loop, job_scheduled, monVars, diskVars>>
    /\ UNCHANGED <<lifePc, obsVars, countVars>>
    /\ UNCHANGED <<lastSave>>
    /\ NoCallNow /\ NoBridgeNow

\* line 137 and lines 139-151: the reload is awaited and the method ends
ReloadStep(t) ==
    /\ pc[t] = "reload"
    /\ DoReload("cycle", proxy.http, proxy.socket)
    /\ Finish(t, cyc[t], lastCycle, << >>, "success", TRUE, TRUE)
    /\ UNCHANGED <<cfgVars, lastClient, is_running, event_loop, job_scheduled, monVars, diskVars>>
    /\ UNCHANGED <<lifePc, obsVars, countVars>>
    /\ UNCHANGED <<lastSave>>
    /\ NoCallNow /\ NoBridgeNow

\* a caller outside the scheduler (the /reload endpoint, a test) calls
\* sync_certificates
ManualTrigger ==
    /\ pc["manual"] = "idle"
    /\ SyncCertificates("manual")
    /\ UNCHANGED <<cfgVars, lastClient, is_running, last_sync_time, sync_errors, event_loop, job_scheduled>>
    /\ UNCHANGED <<monVars, diskVars, lifePc, obsVars, faults, reloadCalls>>
    /\ NoReloadNow /\ NoBridgeNow

(***************************************************************************)
(* The sync cycle alone: a scheduler that was constructed and never        *)
(* started (no observer, no timer), whose sync_certificates is called      *)
(* again and again, against three monitored secrets.                       *)
(***************************************************************************)
S1 == <<"a">>
S2 == <<"b">>
S3 == <<"c">>
M1 == <<"2023-01-01">>
M2 == <<"2023-02-02">>

SyncWorld ==
    (S1 :> {FetchOk(Secret(S1, S1, None, Missing, CertA, KeyK, Missing)),
            FetchOk(Secret(S1, S1, None, Missing, CertANewline, KeyK, Missing)),
            FetchOk(Secret(S1, S1, None, Missing, CertB, KeyL, Missing)),
            FetchOk(Secret(S1, S1, None, Missing, CertA, KeyK, ChainH)),
            FetchOk(Secret(S1, S1, M1, Missing, CertA, KeyK, Missing)),
            FetchOk(Secret(S1, S1, M2, Missing, CertA, KeyK, Missing)),
            FetchFail("ResourceNotFoundException"),
            FetchFail("AccessDeniedException")})
    @@ (S2 :> {FetchOk(Secret(S2, S2, None, Missing, CertA, KeyK, Missing)),
               FetchOk(Secret(S2, S2, None, Missing, CertB, Empty, Missing))})
    @@ (S3 :> {FetchOk(Secret(S3, S3, None, Missing, CertA, KeyK, Missing))})

InitSync ==
    /\ InitEngine
    /\ reload_url = Url /\ stats_socket = None
    /\ proxy = [http |-> {"status_200", "status_500"}, socket |-> {"response"}]
    /\ secrets_names_list = <<S1, S2, S3>>
    /\ world = SyncWorld
    /\ NoTags
    /\ certFile = EmptyMap /\ keyFile = EmptyMap

NextSync ==
    \/ ManualTrigger
    \/ FetchStep("manual")
    \/ SyncOne("manual")
    \/ ReloadStep("manual")

SpecSync == InitSync /\ [][NextSync]_vars

(***************************************************************************)
(* The discovery of the sync cycle: a scheduler that was constructed and   *)
(* never started, under each setting of TAG_KEY, TAG_VALUE and             *)
(* SECRETS_NAMES, against a store that holds the named secret "a" and the  *)
(* tagged secret "b", and whose listing is either allowed or refused.      *)
(***************************************************************************)
TagEnv == <<"Environment">>
TagTeam == <<"Team">>
TagProd == <<"production">>
TagStaging == <<"staging">>

DiscoveryWorld ==
    (S1 :> {FetchOk(Secret(S1, S1, None, Missing, CertA, KeyK, Missing))})
    @@ (S2 :> {FetchOk(Secret(S2, S2, None, Missing, CertB, KeyL, Missing))})

DiscoveryListing ==
    ListOk(<<ListEntry(S1, <<Tag(TagEnv, TagStaging)>>, "ok"),
             ListEntry(S2, <<Tag(TagEnv, TagProd)>>, "ok")>>)

InitDiscovery ==
    /\ InitEngine
    /\ reload_url = Url /\ stats_socket = None
    /\ proxy = [http |-> {"status_200"}, socket |-> {"response"}]
    /\ secrets_names_list \in {<< >>, <<S1>>}
    /\ tag_key \in {None, TagEnv}
    /\ tag_value \in {None, TagProd}
    /\ listing \in {{DiscoveryListing}, {ListFail}}
    /\ world = DiscoveryWorld
    /\ certFile = EmptyMap /\ keyFile = EmptyMap

NextDiscovery ==
    \/ ManualTrigger
    \/ FetchStep("manual")
    \/ SyncOne("manual")
    \/ ReloadStep("manual")

SpecDiscovery == InitDiscovery /\ [][NextDiscovery]_vars

(***************************************************************************)
(* The secrets client alone: its three discovery methods called from       *)
(* outside a cycle (the status endpoints of main.py), under each setting   *)
(* of the names and the tag, against a store of three secrets.             *)
(***************************************************************************)
ClientWorld ==
    (S1 :> {FetchOk(Secret(S1, S1, None, Missing, CertA, KeyK, Missing)),
            FetchFail("ResourceNotFoundException"),
            FetchFail("AccessDeniedException")})
    @@ (S2 :> {FetchOk(Secret(S2, S2, None, Missing, CertB, KeyL, Missing))})
    @@ (S3 :> {FetchOk(Secret(S3, S3, None, Missing, CertA, KeyK, Missing)),
               FetchFail("ResourceNotFoundException")})

\* "a" and "c" carry Environment=production; "b" carries the key with another
\* value and the value under another key; one entry of the listing has no Name
ClientEntries(d) ==
    <<ListEntry(S1, <<Tag(TagEnv, TagProd)>>, "ok"),
      ListEntry(S2, <<Tag(TagEnv, TagStaging), Tag(TagTeam, TagProd)>>, "ok"),
      ListEntry(None, <<Tag(TagEnv, TagProd)>>, "ok"),
      ListEntry(S3, <<Tag(TagTeam, TagStaging), Tag(TagEnv, TagProd)>>, d)>>

ClientListing == {ListOk(ClientEntries("ok")), ListOk(ClientEntries("ClientError")), ListFail}

StoreNames == <<S1, S2, S3>>

ClientFrame ==
    /\ UNCHANGED <<cfgVars, schedVars, monVars, diskVars, taskVars, obsVars, countVars>>
    /\ UNCHANGED <<lastCycle, lastSave>>
    /\ NoCallNow /\ NoReloadNow /\ NoBridgeNow

\* main.py, lines 168-170: get_secrets_by_tag with a key and a value of the
\* caller
GetSecretsByTagCall ==
    /\ \E k \in {TagEnv, TagTeam}, v \in {TagProd, TagStaging},
          lo \in listing, o \in Outcomes(StoreNames, world) :
         LET r == GetSecretsByTag(k, v, lo, o)
         IN lastClient' = [method |-> "get_secrets_by_tag", key |-> k, value |-> v,
                           names |-> << >>, lo |-> lo, outcome |-> o,
                           raised |-> r.raised, secrets |-> r.secrets,
                           listed |-> r.listed, fetched |-> r.fetched]
    /\ ClientFrame

\* get_secrets_by_env_tag, with the key and the value of the settings
GetSecretsByEnvTagCall ==
    /\ \E lo \in listing, o \in Outcomes(StoreNames, world) :
         LET r == GetSecretsByEnvTag(tag_key, tag_value, lo, o)
         IN lastClient' = [method |-> "get_secrets_by_env_tag",
                           key |-> tag_key, value |-> tag_value,
                           names |-> << >>, lo |-> lo, outcome |-> o,
                           raised |-> r.raised, secrets |-> r.secrets,
                           listed |-> r.listed, fetched |-> r.fetched]
    /\ ClientFrame

\* get_monitored_secrets, with the names of the settings
GetMonitoredSecretsCall ==
    /\ \E o \in Outcomes(StoreNames, world) :
         LET r == GetMonitoredSecrets(secrets_names_list, o)
         IN lastClient' = [method |-> "get_monitored_secrets", key |-> None, value |-> None,
                           names |-> secrets_names_list, lo |-> ListFail, outcome |-> o,
                           raised |-> r.raised, secrets |-> r.secrets,
                           listed |-> FALSE,
                           fetched |-> MonitoredFetches(secrets_names_list, o)]
    /\ ClientFrame

InitClient ==
    /\ InitEngine
    /\ reload_url = None /\ stats_socket = None
    /\ proxy = [http |-> HttpOutcomes, socket |-> SocketOutcomes]
    /\ secrets_names_list \in {<< >>, <<S1, S2>>, <<S3, S1, S2>>}
    /\ tag_key \in {None, Empty, TagEnv}
    /\ tag_value \in {None, Empty, TagProd}
    /\ listing = ClientListing
    /\ world = ClientWorld
    /\ certFile = EmptyMap /\ keyFile = EmptyMap

NextClient ==
    \/ GetSecretsByTagCall
    \/ GetSecretsByEnvTagCall
    \/ GetMonitoredSecretsCall

SpecClient == InitClient /\ [][NextClient]_vars

(***************************************************************************)
(* The decision and the naming: a scheduler that was constructed and never *)
(* started, over a directory that may hold files from before, with one     *)
(* monitored secret whose certificate may be text that is no certificate,  *)
(* and whose descriptor may carry a domain name, a name, both or neither.  *)
(***************************************************************************)
Dom == <<"*", ".", "d">>

DecisionWorld ==
    (S1 :> {FetchOk(Secret(S1, S1, None, Missing, CertA, KeyK, Missing)),
            FetchOk(Secret(S1, S1, None, Missing, Garbage, KeyK, Missing)),
            FetchOk(Secret(S1, S1, M1, Missing, CertA, KeyK, Missing)),
            FetchOk(Secret(S1, S1, None, Dom, CertA, KeyK, Missing)),
            FetchOk(Secret(S1, None, None, Dom, CertA, KeyK, Missing)),
            FetchOk(Secret(S1, None, None, Missing, CertA, KeyK, Missing)),
            FetchOk(Secret(S1, S1, M1, Missing, Missing, KeyK, Missing)),
            FetchOk(Secret(S1, S1, None, Missing, CertB, Missing, Missing)),
            FetchOk(Secret(S1, S1, None, Missing, Empty, KeyK, Missing)),
            FetchOk(Secret(S1, S1, None, Missing, CertB, Empty, Missing))})

InitDecision ==
    /\ InitEngine
    /\ reload_url = Url /\ stats_socket = None
    /\ proxy = [http |-> {"status_200"}, socket |-> {"response"}]
    /\ secrets_names_list = <<S1>>
    /\ world = DecisionWorld
    /\ NoTags
    /\ \E c \in {Missing, CertA, Garbage}, k \in {Missing, KeyK} :
         /\ certFile = IF c = Missing THEN EmptyMap ELSE (S1 :> c)
         /\ keyFile = IF k = Missing THEN EmptyMap ELSE (S1 :> k)

NextDecision ==
    \/ ManualTrigger
    \/ FetchStep("manual")
    \/ SyncOne("manual")
    \/ ReloadStep("manual")

SpecDecision == InitDecision /\ [][NextDecision]_vars

(***************************************************************************)
(* get_status: what the status endpoint reads of the scheduler.  The       *)
(* method has no await, so it reads one state.                             *)
(***************************************************************************)
\* the 5 of self.sync_errors[-5:]
RecentN == 5

\* a slice [:5], the first entries
FirstErrors(errs) == SubSeq(errs, 1, IF Len(errs) < RecentN THEN Len(errs) ELSE RecentN)

\* the slice [-5:]: the last RecentN entries, or all of them when there are
\* fewer
RecentErrors(errs) ==
    SubSeq(errs, (IF Len(errs) < RecentN THEN 0 ELSE Len(errs) - RecentN) + 1, Len(errs))

GetStatus ==
    [is_running |-> is_running,
     sync_in_progress |-> sync_in_progress,
     last_sync_time |-> last_sync_time,
     certificates_count |-> Cardinality(DOMAIN certificates),
     monitored_secrets |-> secrets_names_list,
     recent_errors |-> RecentErrors(sync_errors)]

(***************************************************************************)
(* The error list: a scheduler that was constructed and never started and  *)
(* whose earlier cycles left up to MaxErrors entries in sync_errors, with  *)
(* one monitored secret whose fetch may be denied.                         *)
(***************************************************************************)
RECURSIVE ErrorLists(_)
ErrorLists(n) ==
    IF n = 0 THEN {<< >>}
    ELSE LET shorter == ErrorLists(n - 1)
         IN shorter \cup {Append(q, e) : q \in {x \in shorter : Len(x) = n - 1},
                                         e \in {FetchError, ScanError}}

StatusWorld ==
    (S1 :> {FetchOk(Secret(S1, S1, None, Missing, CertA, KeyK, Missing)),
            FetchFail("AccessDeniedException")})

InitStatus ==
    /\ is_running = FALSE /\ sync_in_progress = FALSE /\ last_sync_time = 0
    /\ sync_errors \in ErrorLists(MaxErrors)
    /\ event_loop = FALSE /\ job_scheduled = FALSE
    /\ certificates = EmptyMap /\ observer = FALSE /\ change_callbacks = 0
    /\ pc = [t \in Tasks |-> "idle"] /\ cyc = [t \in Tasks |-> IdleCyc]
    /\ lifePc = "idle"
    /\ obsPc = "idle" /\ fsEvents = 0 /\ loopQueue = 0
    /\ cycles = 0 /\ faults = 0 /\ reloadCalls = 0
    /\ lastCall = NoCall /\ lastCycle = NoCycle /\ lastReload = NoReload
    /\ lastBridge = NoBridge /\ lastSave = NoSave /\ lastClient = NoClient
    /\ reload_url = Url /\ stats_socket = None
    /\ proxy = [http |-> {"status_200"}, socket |-> {"response"}]
    /\ secrets_names_list = <<S1>>
    /\ world = StatusWorld
    /\ NoTags
    /\ certFile = EmptyMap /\ keyFile = EmptyMap

NextStatus ==
    \/ ManualTrigger
    \/ FetchStep("manual")
    \/ SyncOne("manual")
    \/ ReloadStep("manual")

SpecStatus == InitStatus /\ [][NextStatus]_vars

(***************************************************************************)
(* The scheduler's life: start(), the interval job, stop().                *)
(***************************************************************************)
\* start(), lines 37-52, up to the await of the initial sync: a second call
\* while running returns at once
StartCall ==
    /\ lifePc = "idle"
    /\ IF is_running
       THEN UNCHANGED <<event_loop, observer, fsEvents, change_callbacks, certificates, pc, lifePc>>
       ELSE /\ change_callbacks < MaxStarts
            /\ event_loop' = TRUE
            /\ observer' = TRUE
            /\ fsEvents' = IF observer THEN fsEvents ELSE 0
            /\ change_callbacks' = change_callbacks + 1
            /\ certificates' = ScanCertificates(certFile, keyFile)
            /\ pc' = [pc EXCEPT !["init"] = "call"]
            /\ lifePc' = "starting"
    /\ UNCHANGED <<cfgVars, lastClient, is_running, sync_in_progress, last_sync_time, sync_errors, job_scheduled>>
    /\ UNCHANGED <<diskVars, cyc, obsPc, loopQueue, cycles, faults, reloadCalls>>
    /\ UNCHANGED <<lastCycle, lastSave>>
    /\ NoCallNow /\ NoReloadNow /\ NoBridgeNow

\* _initial_scan, line 98: the initial sync
InitialSync ==
    /\ lifePc = "starting"
    /\ pc["init"] = "call"
    /\ SyncCertificates("init")
    /\ UNCHANGED <<cfgVars, lastClient, is_running, last_sync_time, sync_errors, event_loop, job_scheduled>>
    /\ UNCHANGED <<monVars, diskVars, lifePc, obsVars, faults, reloadCalls>>
    /\ NoReloadNow /\ NoBridgeNow

\* start(), lines 54-68, after the initial sync returned
StartFinish ==
    /\ lifePc = "starting"
    /\ pc["init"] = "idle"
    /\ job_scheduled' = TRUE
    /\ is_running' = TRUE
    /\ lifePc' = "idle"
    /\ UNCHANGED <<cfgVars, lastClient, sync_in_progress, last_sync_time, sync_errors, event_loop>>
    /\ UNCHANGED <<monVars, diskVars, pc, cyc, obsVars, countVars, lastCycle, lastSave>>
    /\ NoCallNow /\ NoReloadNow /\ NoBridgeNow

\* a stop() that does not stop and join the observer
StopWithoutJoin ==
    /\ lifePc = "idle"
    /\ is_running
    /\ job_scheduled' = FALSE
    /\ pc' = [pc EXCEPT !["timer"] = IF @ = "idle" THEN "idle" ELSE "cancelled"]
    /\ is_running' = FALSE
    /\ event_loop' = FALSE
    /\ UNCHANGED <<cfgVars, lastClient, sync_in_progress, last_sync_time, sync_errors>>
    /\ UNCHANGED <<monVars, diskVars, cyc, lifePc, obsVars>>
    /\ UNCHANGED <<countVars, lastCycle, lastSave>>
    /\ NoCallNow /\ NoReloadNow /\ NoBridgeNow

\* stop(), lines 70-85: the scheduler is shut down, which cancels the future of
\* a job that is running; the observer is stopped and joined, which waits for
\* the handler it is in and drops the events it has not taken
Stop ==
    /\ lifePc = "idle"
    /\ is_running
    /\ obsPc = "idle"
    /\ job_scheduled' = FALSE
    /\ pc' = [pc EXCEPT !["timer"] = IF @ = "idle" THEN "idle" ELSE "cancelled"]
    /\ observer' = FALSE
    /\ fsEvents' = 0
    /\ is_running' = FALSE
    /\ event_loop' = FALSE
    /\ UNCHANGED <<cfgVars, lastClient, sync_in_progress, last_sync_time, sync_errors>>
    /\ UNCHANGED <<certificates, change_callbacks, diskVars, cyc, lifePc, obsPc, loopQueue>>
    /\ UNCHANGED <<countVars, lastCycle, lastSave>>
    /\ NoCallNow /\ NoReloadNow /\ NoBridgeNow

\* the interval job fires: max_instances=1 lets no second instance start while
\* one runs
TimerTrigger ==
    /\ job_scheduled
    /\ pc["timer"] = "idle"
    /\ SyncCertificates("timer")
    /\ UNCHANGED <<cfgVars, lastClient, is_running, last_sync_time, sync_errors, event_loop, job_scheduled>>
    /\ UNCHANGED <<monVars, diskVars, lifePc, obsVars, faults, reloadCalls>>
    /\ NoReloadNow /\ NoBridgeNow

\* a cancelled sync_certificates resumes with CancelledError, which the except
\* block does not catch; the finally block runs
Cancelled(t) ==
    /\ pc[t] = "cancelled"
    /\ Finish(t, cyc[t], lastCycle, << >>, "cancelled", FALSE, FALSE)
    /\ UNCHANGED <<cfgVars, lastClient, is_running, event_loop, job_scheduled, monVars, diskVars>>
    /\ UNCHANGED <<lifePc, obsVars, countVars>>
    /\ UNCHANGED <<lastSave>>
    /\ NoCallNow /\ NoReloadNow /\ NoBridgeNow

(***************************************************************************)
(* The observer thread and the bridge into the event loop.                 *)
(***************************************************************************)
\* a file with a certificate extension is created or modified in the
\* directory from outside the service
ExternalChange ==
    /\ observer
    /\ fsEvents < MaxEvents
    /\ fsEvents' = fsEvents + 1
    /\ UNCHANGED <<cfgVars, lastClient, schedVars, monVars, diskVars, taskVars, obsPc, loopQueue>>
    /\ UNCHANGED <<countVars, lastCycle, lastSave>>
    /\ NoCallNow /\ NoReloadNow /\ NoBridgeNow

\* on_modified / on_created and on_certificate_changed, line 148, in the
\* observer thread: scan_certificates begins by clearing the index
ObserverTake ==
    /\ observer
    /\ obsPc = "idle"
    /\ fsEvents > 0
    /\ fsEvents' = fsEvents - 1
    /\ certificates' = EmptyMap
    /\ obsPc' = "scanning"
    /\ UNCHANGED <<cfgVars, lastClient, schedVars, observer, change_callbacks, diskVars, taskVars, loopQueue>>
    /\ UNCHANGED <<countVars, lastCycle, lastSave>>
    /\ NoCallNow /\ NoReloadNow /\ NoBridgeNow

\* an _on_certificate_file_changed that hands nothing over while a sync cycle
\* is in progress
OnCertificateFileChangedNotMidCycle(k) ==
    IF is_running /\ event_loop /\ ~sync_in_progress
    THEN /\ loopQueue' = loopQueue + k
         /\ lastBridge' = [callbacks |-> k, scheduled |-> k, dropped |-> 0]
    ELSE /\ loopQueue' = loopQueue
         /\ lastBridge' = [callbacks |-> k, scheduled |-> 0, dropped |-> k]

\* an _on_certificate_file_changed without the test of line 246
OnCertificateFileChangedAlways(k) ==
    /\ loopQueue' = loopQueue + k
    /\ lastBridge' = [callbacks |-> k, scheduled |-> k, dropped |-> 0]

\* _on_certificate_file_changed, called once per registered callback (k times):
\* the reload coroutine is handed to the event loop when the scheduler is
\* running, and a warning is logged otherwise
OnCertificateFileChanged(k) ==
    IF is_running /\ event_loop
    THEN /\ loopQueue' = loopQueue + k
         /\ lastBridge' = [callbacks |-> k, scheduled |-> k, dropped |-> 0]
    ELSE /\ loopQueue' = loopQueue
         /\ lastBridge' = [callbacks |-> k, scheduled |-> 0, dropped |-> k]

\* scan_certificates, lines 165-172, and on_certificate_changed, lines 150-155,
\* in the observer thread: every *.pem file is loaded into the index, then the
\* callbacks are called.  The loop's queue of coroutines is given a capacity.
ObserverFinish ==
    /\ obsPc = "scanning"
    /\ certificates' = [s \in DOMAIN certificates
                                  \cup {x \in DOMAIN certFile : Loadable(certFile, keyFile, x)} |->
                           IF s \in DOMAIN certFile /\ Loadable(certFile, keyFile, s)
                           THEN LoadCertificateFile(certFile, keyFile, s)
                           ELSE certificates[s]]
    /\ OnCertificateFileChanged(change_callbacks)
    /\ loopQueue' <= MaxEvents * MaxStarts
    /\ obsPc' = "idle"
    /\ UNCHANGED <<cfgVars, lastClient, schedVars, observer, change_callbacks, diskVars, taskVars, fsEvents>>
    /\ UNCHANGED <<countVars, lastCycle, lastSave>>
    /\ NoCallNow /\ NoReloadNow

\* a reload for a file change that no coroutine was handed over for
HandleCertificateChangeInline ==
    /\ obsPc = "scanning"
    /\ is_running
    /\ reloadCalls < MaxReloads
    /\ reloadCalls' = reloadCalls + 1
    /\ DoReload("bridge", proxy.http, proxy.socket)
    /\ UNCHANGED <<cfgVars, lastClient, schedVars, monVars, diskVars, taskVars, obsVars>>
    /\ UNCHANGED <<cycles, faults, lastCycle, lastSave>>
    /\ NoCallNow /\ NoBridgeNow

\* _handle_certificate_change, run by the event loop
HandleCertificateChange ==
    /\ loopQueue > 0
    /\ loopQueue' = loopQueue - 1
    /\ DoReload("bridge", proxy.http, proxy.socket)
    /\ UNCHANGED <<cfgVars, lastClient, schedVars, monVars, diskVars, taskVars, obsPc, fsEvents>>
    /\ UNCHANGED <<countVars, lastCycle, lastSave>>
    /\ NoCallNow /\ NoBridgeNow

(***************************************************************************)
(* The service: one monitored secret, both reload transports configured.   *)
(***************************************************************************)
EngineWorld ==
    (S1 :> {FetchOk(Secret(S1, S1, None, Missing, CertA, KeyK, Missing)),
            FetchFail("AccessDeniedException")})

Init ==
    /\ InitEngine
    /\ reload_url = Url /\ stats_socket = Sock
    /\ proxy = [http |-> {"status_200", "timeout"}, socket |-> {"response"}]
    /\ secrets_names_list = <<S1>>
    /\ world = EngineWorld
    /\ NoTags
    /\ certFile = EmptyMap /\ keyFile = EmptyMap

Next ==
    \/ StartCall
    \/ InitialSync
    \/ StartFinish
    \/ Stop
    \/ TimerTrigger
    \/ ManualTrigger
    \/ \E t \in Tasks : FetchStep(t)
    \/ \E t \in Tasks : SyncOne(t)
    \/ \E t \in Tasks : ReloadStep(t)
    \/ \E t \in Tasks : Cancelled(t)
    \/ ExternalChange
    \/ ObserverTake
    \/ ObserverFinish
    \/ HandleCertificateChange

Spec == Init /\ [][Next]_vars

\* the event loop resumes every coroutine whose await has completed: a cycle
\* that was begun takes its next step
CycleStep == \E t \in Tasks : FetchStep(t) \/ SyncOne(t) \/ ReloadStep(t) \/ Cancelled(t)

Fairness == WF_vars(CycleStep)

FairSpec == Spec /\ Fairness

\* the event loop runs every coroutine that was handed to it
BridgeFairness == WF_vars(HandleCertificateChange)

BridgeFairSpec == Spec /\ BridgeFairness

(***************************************************************************)
(* An install beside the observer thread.  save_certificate runs in the    *)
(* event loop's thread and writes the certificate file, then the key file; *)
(* the observer thread may run between the two writes.  The event loop     *)
(* runs nothing else while save_certificate is on its stack.  The          *)
(* directory holds the pair of one version when the service starts, and    *)
(* the secret store answers with that version or with the next one.        *)
(***************************************************************************)
\* no task is between the two writes of save_certificate
LoopFree == \A t \in Tasks : pc[t] # "saving"

\* _sync_single_certificate up to save_certificate, lines 201-205: an update
\* was decided, the secret passed validation, and <name>.pem was written
SaveCertificateBegin(t) ==
    /\ pc[t] = "sync"
    /\ LET c == cyc[t]
           d == c.secrets[c.i]
           name == GetCertificateNameFromSecret(d)
           r == SyncSingleCertificate(certFile, keyFile, certificates, d, "key_open")
           entry == [secret_name |-> d.secret_name, name |-> name,
                     hadFile |-> name \in DOMAIN certFile,
                     hadRecord |-> name \in DOMAIN certificates,
                     local |-> IF name \in DOMAIN certificates
                               THEN certificates[name]
                               ELSE CertificateInfo(Missing, Missing),
                     needs |-> r.needs, saved |-> "writing", updated |-> FALSE,
                     raised |-> FALSE]
       IN /\ r.saved # "no"
          /\ certFile' = r.cert
          /\ fsEvents' = IF observer THEN Enqueue(fsEvents) ELSE fsEvents
          /\ lastSave' = [name |-> name, fault |-> "none",
                          certBefore |-> FileOf(certFile, name),
                          keyBefore |-> FileOf(keyFile, name),
                          certAfter |-> FileOf(r.cert, name),
                          keyAfter |-> FileOf(keyFile, name),
                          updated |-> FALSE]
          /\ lastCycle' = [lastCycle EXCEPT !.log = Append(@, entry)]
          /\ pc' = [pc EXCEPT ![t] = "saving"]
    /\ UNCHANGED <<cfgVars, lastClient, schedVars, monVars, keyFile, cyc, lifePc>>
    /\ UNCHANGED <<obsPc, loopQueue, countVars>>
    /\ NoCallNow /\ NoReloadNow /\ NoBridgeNow

\* save_certificate from line 208 on, the return of _sync_single_certificate
\* and lines 122-126 of the loop, and after the last secret lines 128-137
SaveCertificateEnd(t) ==
    /\ pc[t] = "saving"
    /\ \E fault \in WriteFaults \ {"cert_open"}, sf \in ScanFaults :
         LET c == cyc[t]
             d == c.secrets[c.i]
             name == GetCertificateNameFromSecret(d)
             r == SaveCertificate(certFile, keyFile, name, d.certificate, d.private_key,
                                  ExtractChain(d), fault)
             n == Len(lastCycle.log)
             L == [lastCycle EXCEPT !.log[n].saved = IF r.raised THEN "failed" ELSE "ok",
                                    !.log[n].updated = ~r.raised]
             c2 == [c EXCEPT !.i = c.i + 1,
                             !.certificates_updated = c.certificates_updated \/ ~r.raised]
             fc == IF fault = "none" THEN faults ELSE faults + 1
         IN /\ fault = "none" \/ faults < MaxFaults
            /\ certFile' = r.cert
            /\ keyFile' = r.key
            /\ lastSave' = [lastSave EXCEPT !.fault = fault,
                                            !.keyAfter = FileOf(r.key, name),
                                            !.updated = ~r.raised]
            /\ IF c.i = Len(c.secrets)
               THEN AfterLoop(t, c2, L, r.cert, r.key, << >>, sf, fc)
               ELSE /\ sf = "none"
                    /\ faults' = fc
                    /\ Continue(t, c2, L, "sync", << >>)
                    /\ UNCHANGED certificates
    /\ UNCHANGED <<cfgVars, lastClient, is_running, event_loop, job_scheduled, observer, change_callbacks>>
    /\ UNCHANGED <<lifePc, obsVars, cycles, reloadCalls>>
    /\ NoCallNow /\ NoReloadNow /\ NoBridgeNow

InstallWorld ==
    (S1 :> {FetchOk(Secret(S1, S1, None, Missing, CertA, KeyK, Missing)),
            FetchOk(Secret(S1, S1, None, Missing, CertB, KeyL, Missing))})

InitInstall ==
    /\ InitEngine
    /\ reload_url = Url /\ stats_socket = None
    /\ proxy = [http |-> {"status_200"}, socket |-> {"response"}]
    /\ secrets_names_list = <<S1>>
    /\ world = InstallWorld
    /\ NoTags
    /\ certFile = (S1 :> CertA) /\ keyFile = (S1 :> KeyK)

\* what the event loop runs between the steps of a cycle
LoopStep ==
    /\ LoopFree
    /\ \/ StartCall
       \/ InitialSync
       \/ StartFinish
       \/ ManualTrigger
       \/ HandleCertificateChange

NextInstall ==
    \/ LoopStep
    \/ \E t \in Tasks : FetchStep(t)
    \/ \E t \in Tasks : SyncOne(t)
    \/ \E t \in Tasks : SaveCertificateBegin(t)
    \/ \E t \in Tasks : SaveCertificateEnd(t)
    \/ \E t \in Tasks : ReloadStep(t)
    \/ ObserverTake
    \/ ObserverFinish

SpecInstall == InitInstall /\ [][NextInstall]_vars

(***************************************************************************)
(* The certificate directory and its scan: a monitor that was constructed  *)
(* over a directory of three *.pem files, some unparsable, some that       *)
(* cannot be read, some with a key file; files are deleted from outside    *)
(* and scan_certificates is called.                                        *)
(***************************************************************************)
Remove(f, k) == [x \in DOMAIN f \ {k} |-> f[x]]

ScanStems == {S1, S2, S3}

InitScan ==
    /\ InitEngine
    /\ reload_url = Url /\ stats_socket = None
    /\ proxy = [http |-> {"status_200"}, socket |-> {"response"}]
    /\ secrets_names_list = << >>
    /\ world = EmptyMap
    /\ NoTags
    /\ certFile \in [ScanStems -> {CertA, Garbage, Binary}]
    /\ \E ks \in SUBSET ScanStems : keyFile \in [ks -> {KeyK, Binary}]

\* scan_certificates, called with no other thread in the monitor
ScanCall ==
    /\ certificates' = ScanCertificates(certFile, keyFile)
    /\ UNCHANGED <<cfgVars, lastClient, schedVars, observer, change_callbacks, diskVars, taskVars>>
    /\ UNCHANGED <<obsVars, countVars, lastCycle, lastSave>>
    /\ NoCallNow /\ NoReloadNow /\ NoBridgeNow

\* <stem>.pem is deleted from outside the service
DeleteCertFile ==
    /\ \E s \in DOMAIN certFile : certFile' = Remove(certFile, s)
    /\ UNCHANGED <<cfgVars, lastClient, schedVars, monVars, keyFile, taskVars>>
    /\ UNCHANGED <<obsVars, countVars, lastCycle, lastSave>>
    /\ NoCallNow /\ NoReloadNow /\ NoBridgeNow

\* <stem>.key is deleted from outside the service
DeleteKeyFile ==
    /\ \E s \in DOMAIN keyFile : keyFile' = Remove(keyFile, s)
    /\ UNCHANGED <<cfgVars, lastClient, schedVars, monVars, certFile, taskVars>>
    /\ UNCHANGED <<obsVars, countVars, lastCycle, lastSave>>
    /\ NoCallNow /\ NoReloadNow /\ NoBridgeNow

NextScan ==
    \/ ScanCall
    \/ DeleteCertFile
    \/ DeleteKeyFile

SpecScan == InitScan /\ [][NextScan]_vars

(***************************************************************************)
(* Two monitored secrets whose names differ in one character that          *)
(* get_certificate_name_from_secret replaces: "p/q" and "p_q".             *)
(***************************************************************************)
NameSlash == <<"p", "/", "q">>
NameUnderscore == <<"p", "_", "q">>

NamesWorld ==
    (NameSlash :> {FetchOk(Secret(NameSlash, NameSlash, None, Missing, CertA, KeyK, Missing)),
                   FetchFail("ResourceNotFoundException")})
    @@ (NameUnderscore :>
           {FetchOk(Secret(NameUnderscore, NameUnderscore, None, Missing, CertB, KeyL, Missing)),
            FetchOk(Secret(NameUnderscore, NameUnderscore, None, Missing, CertA, KeyK, Missing))})

InitNames ==
    /\ InitEngine
    /\ reload_url = Url /\ stats_socket = None
    /\ proxy = [http |-> {"status_200", "status_500"}, socket |-> {"response"}]
    /\ secrets_names_list = <<NameSlash, NameUnderscore>>
    /\ world = NamesWorld
    /\ NoTags
    /\ certFile = EmptyMap /\ keyFile = EmptyMap

NextNames ==
    \/ ManualTrigger
    \/ FetchStep("manual")
    \/ SyncOne("manual")
    \/ ReloadStep("manual")

SpecNames == InitNames /\ [][NextNames]_vars

(***************************************************************************)
(* Properties of the sync cycle's guard (Spec, FairSpec).                  *)
(***************************************************************************)
\* the tasks that are inside a sync cycle
InCycle == {t \in Tasks : pc[t] \in {"fetch", "sync", "reload", "cancelled"}}

\* C1 (single-flight): at every moment at most one task is inside a sync
\* cycle, and sync_in_progress is set exactly while one is.  A call of
\* sync_certificates made while sync_in_progress is set returns at once: it
\* starts no cycle, leaves nothing behind to run later, and changes neither
\* the scheduler, the store, the directory nor the cycle that is running.
C1_SingleFlight ==
    /\ [](Cardinality(InCycle) <= 1 /\ (sync_in_progress <=> InCycle # {}))
    /\ [][lastCall'.outcome = "skipped" =>
            /\ sync_in_progress /\ InCycle # {}
            /\ pc' = [pc EXCEPT ![lastCall'.task] = "idle"]
            /\ lastCall'.task \notin InCycle
            /\ UNCHANGED <<cfgVars, schedVars, monVars, diskVars, cyc, lifePc>>
            /\ UNCHANGED <<obsVars, countVars, lastCycle, lastSave>>]_vars

\* the interval job's cycle is running and a manual call has just been skipped
C1_Witness ==
    /\ lastCall = [task |-> "manual", outcome |-> "skipped"]
    /\ pc["timer"] \in {"fetch", "sync", "reload"}
    /\ pc["manual"] = "idle"

\* C2 (guaranteed release): whenever sync_in_progress is set it is cleared
\* again, however the cycle ends (success, a failed fetch, a failed rescan, a
\* cancellation); a cycle that has ended has left the flag cleared.
C2_GuaranteedRelease ==
    /\ sync_in_progress ~> ~sync_in_progress
    /\ [](InCycle = {} => ~sync_in_progress)

\* a cycle ended in its except block and the flag is cleared
C2_Witness ==
    /\ lastCycle.exit = "failed"
    /\ lastCycle.errors # << >>
    /\ InCycle = {}
    /\ ~sync_in_progress

(***************************************************************************)
(* Properties of one cycle and the next (SpecSync).  lastCycle.remote[i]   *)
(* is the descriptor that lastCycle.log[i] tells of.                       *)
(***************************************************************************)
\* the descriptors of secret sn among those fetched
Find(secrets, sn) == {secrets[i] : i \in {j \in DOMAIN secrets : secrets[j].secret_name = sn}}

\* C3 (idempotence), as the specification states it: a cycle that follows a
\* successful cycle with the same remote descriptors (same markers, same
\* bytes), no write having failed, installs nothing and does not reload.
C3_Idempotence ==
    (/\ lastCycle.exit = "success"
     /\ lastCycle.prevExit = "success"
     /\ lastCycle.remote = lastCycle.prevRemote
     /\ faults = 0)
    => /\ ~lastCycle.reloaded
       /\ \A i \in DOMAIN lastCycle.log : lastCycle.log[i].saved = "no"

C5_PartialFailureIsolation ==
    LET failing == {i \in DOMAIN lastCycle.log : ~ValidateCertificateSecret(lastCycle.remote[i])}
    IN (/\ lastCycle.exit \in {"success", "failed"}
        /\ Len(lastCycle.log) = Len(lastCycle.remote)
        /\ failing # {}
        /\ faults = 0)
       => /\ \A i \in DOMAIN lastCycle.log \ failing :
                lastCycle.log[i].needs => lastCycle.log[i].saved = "ok"
          /\ Len(lastCycle.errors) = Cardinality(failing)
          /\ lastCycle.success

\* C6 (install atomicity), as the specification states it: when the write of
\* the key file fails after the certificate file was written, the pair that
\* was on disk is unchanged and the secret does not count as updated.
C6_InstallAtomicity ==
    (/\ lastSave.fault \in {"key_open", "key_write"}
     /\ lastSave.certBefore # Missing
     /\ lastSave.keyBefore # Missing)
    => /\ lastSave.certAfter = lastSave.certBefore
       /\ lastSave.keyAfter = lastSave.keyBefore
       /\ ~lastSave.updated

\* C11 (enumeration failure): a cycle whose fetch of the monitored secrets
\* raised has ended as failed: its error is the last entry of sync_errors,
\* it handled no secret, called no save and no reload, left last_sync_time
\* alone, and cleared sync_in_progress, so that the next call starts a cycle.
C11_EnumerationFailure ==
    (lastCycle.exit = "failed" /\ lastCycle.errors = <<FetchError>>) =>
        /\ ~lastCycle.success
        /\ sync_errors # << >> /\ sync_errors[Len(sync_errors)] = FetchError
        /\ lastCycle.log = << >> /\ lastCycle.remote = << >>
        /\ lastSave = NoSave
        /\ ~lastCycle.reloaded /\ lastReload = NoReload
        /\ last_sync_time # lastCycle.n
        /\ ~sync_in_progress /\ pc["manual"] = "idle"

\* the cycle after a cycle whose fetch failed has run and installed
C11_Witness ==
    /\ lastCycle.n = 2
    /\ lastCycle.prevExit = "failed" /\ lastCycle.prevRemote = << >>
    /\ sync_errors = <<FetchError>>
    /\ lastCycle.exit = "success"
    /\ \E i \in DOMAIN lastCycle.log : lastCycle.log[i].saved = "ok"

\* the files of the secrets the cycle installed hold what was installed
InstalledStays ==
    \A i \in DOMAIN lastCycle.log :
        LET e == lastCycle.log[i]
            d == lastCycle.remote[i]
        IN e.saved = "ok" =>
              /\ FileOf(certFile, e.name) = PemContent(d.certificate, ExtractChain(d))
              /\ FileOf(keyFile, e.name) = d.private_key

Range(q) == {q[i] : i \in 1..Len(q)}
NoRepeat(q) == \A i, j \in 1..Len(q) : q[i] = q[j] => i = j

\* C18 (fetch error isolation): a cycle in which the fetch of one name met
\* a remote error other than "not found" is not failed by it; the error is
\* recorded in the error list, and every other name whose fetch gave data is
\* handled in the same cycle.
C18_FetchErrorIsolation ==
    (lastCycle.exit \in {"success", "failed"}
        /\ \E n \in DOMAIN lastCycle.fetch : lastCycle.fetch[n].kind \in RaiseKinds) =>
        /\ FetchError \notin Range(lastCycle.errors)
        /\ lastCycle.errors # << >> /\ sync_errors # << >>
        /\ \A n \in DOMAIN lastCycle.fetch :
               lastCycle.fetch[n].kind = "ok" =>
                   \E i \in 1..Len(lastCycle.log) : lastCycle.remote[i].secret_name = n

(***************************************************************************)
(* Properties of the cycle's discovery (SpecDiscovery).                    *)
(***************************************************************************)
\* TAG_KEY and TAG_VALUE are both set
TagConfigured == Truthy(tag_key) /\ Truthy(tag_value)

\* a cycle was begun and is past its fetch
PastFetch == lastCycle.n > 0 /\ \A t \in Tasks : pc[t] # "fetch"

\* C13 (discovery strategy selection): a cycle under a configured tag key
\* and value begins with the tag-based fetch and, when that fetch does not
\* raise, never calls the explicit-name fetch; a cycle with no tag
\* configured and names configured calls the explicit-name fetch alone; a
\* cycle with neither calls no discovery method and has no descriptors.
C13_DiscoverySelection ==
    PastFetch =>
        IF TagConfigured
        THEN /\ lastCycle.discovery # << >>
             /\ lastCycle.discovery[1] = "get_secrets_by_env_tag"
             /\ ListFail \notin listing => Len(lastCycle.discovery) = 1
        ELSE IF secrets_names_list # << >>
        THEN lastCycle.discovery = <<"get_monitored_secrets">>
        ELSE lastCycle.discovery = << >> /\ lastCycle.remote = << >>

\* C14 (discovery fallback): a cycle under a configured tag whose tag-based
\* fetch raises (the listing of the store is refused) calls the tag-based
\* fetch once, then the explicit-name fetch once, and goes on with what the
\* explicit-name fetch returned.
C14_DiscoveryFallback ==
    (PastFetch /\ TagConfigured /\ listing = {ListFail}) =>
        /\ lastCycle.discovery = <<"get_secrets_by_env_tag", "get_monitored_secrets">>
        /\ lastCycle.exit # "failed"
        /\ \E o \in Outcomes(secrets_names_list, world) :
               LET r == GetMonitoredSecrets(secrets_names_list, o)
               IN ~r.raised /\ lastCycle.remote = r.secrets

(***************************************************************************)
(* Properties of the secrets client (SpecClient).  lastClient holds the    *)
(* arguments of the call made last, what the store answered (lo for the    *)
(* listing, outcome for each fetch) and what the call did and returned.    *)
(***************************************************************************)

\* the names of the listed secrets that carry the tag key=value
Tagged(es, k, v) ==
    {es[i].Name : i \in {j \in 1..Len(es) : Tag(k, v) \in Range(es[j].Tags) /\ Truthy(es[j].Name)}}

\* C15 (tag-based discovery): get_secrets_by_tag(key, value) asks the store
\* for the full data of the listed secrets that carry a tag with exactly that
\* key and that value, once each, and of no other secret; when it returns, it
\* returns exactly those of them whose data the store gave.
C15_TagDiscovery ==
    (lastClient.method = "get_secrets_by_tag" /\ lastClient.lo.kind = "ok") =>
        LET es == ListSecrets(lastClient.lo).secrets
            T == Tagged(es, lastClient.key, lastClient.value)
            o == lastClient.outcome
        IN /\ Range(lastClient.fetched) \subseteq T
           /\ NoRepeat(lastClient.fetched)
           /\ ~lastClient.raised =>
                  /\ Range(lastClient.fetched) = T
                  /\ Range(lastClient.secrets) = {o[n].data : n \in {m \in T : o[m].kind = "ok"}}
                  /\ NoRepeat(lastClient.secrets)

\* Environment=production was asked for: "a" and "c" were fetched and "b" was
\* not, "a" was not found, and "c" alone is returned
C15_Witness ==
    /\ lastClient.method = "get_secrets_by_tag"
    /\ lastClient.key = TagEnv /\ lastClient.value = TagProd
    /\ lastClient.lo = ListOk(ClientEntries("ok"))
    /\ lastClient.outcome[S1].kind = "ResourceNotFoundException"
    /\ lastClient.fetched = <<S1, S3>>
    /\ ~lastClient.raised
    /\ Len(lastClient.secrets) = 1 /\ lastClient.secrets[1].secret_name = S3

\* C16: get_secrets_by_env_tag returns an empty mapping and asks nothing of
\* the store when the configured tag key or the configured tag value is not
\* set; when both are set it does and returns what get_secrets_by_tag does
\* for the configured key and value.
C16_EnvTag ==
    lastClient.method = "get_secrets_by_env_tag" =>
        IF ~Truthy(tag_key) \/ ~Truthy(tag_value)
        THEN /\ ~lastClient.raised /\ lastClient.secrets = << >>
             /\ ~lastClient.listed /\ lastClient.fetched = << >>
        ELSE LET r == GetSecretsByTag(tag_key, tag_value, lastClient.lo, lastClient.outcome)
             IN /\ lastClient.raised = r.raised /\ lastClient.secrets = r.secrets
                /\ lastClient.listed /\ lastClient.fetched = r.fetched

\* the key is set, the value is not: nothing was asked of a store that would
\* have answered
C16_Witness ==
    /\ lastClient.method = "get_secrets_by_env_tag"
    /\ tag_key = TagEnv /\ tag_value = None
    /\ lastClient.lo = ListOk(ClientEntries("ok"))
    /\ lastClient.secrets = << >> /\ ~lastClient.listed /\ lastClient.fetched = << >>

\* the secrets of the names whose fetch gave data, in the order of the names
RECURSIVE Given(_, _)
Given(names, o) ==
    IF names = << >> THEN << >>
    ELSE (IF o[Head(names)].kind = "ok" THEN <<o[Head(names)].data>> ELSE << >>)
         \o Given(Tail(names), o)

\* C17 (explicit discovery, not found): get_monitored_secrets raises only
\* when the fetch of a name raises, and a fetch that finds no secret does not
\* raise; when no fetch raises, every name is fetched, and the names that
\* were not found are left out of the result while the others are returned.
C17_NotFoundOmitted ==
    lastClient.method = "get_monitored_secrets" =>
        LET o == lastClient.outcome
            names == lastClient.names
        IN /\ lastClient.raised <=> \E n \in Range(names) : o[n].kind \in RaiseKinds
           /\ ~lastClient.raised =>
                  /\ lastClient.fetched = names
                  /\ lastClient.secrets = Given(names, o)
                  /\ \A n \in Range(names) :
                         o[n].kind = "ResourceNotFoundException" =>
                             \A i \in 1..Len(lastClient.secrets) :
                                 lastClient.secrets[i].secret_name # n

\* "c" was not found; "a" and "b", which follow it, were fetched and returned
C17_Witness ==
    /\ lastClient.method = "get_monitored_secrets"
    /\ lastClient.names = <<S3, S1, S2>>
    /\ lastClient.outcome[S3].kind = "ResourceNotFoundException"
    /\ lastClient.fetched = <<S3, S1, S2>>
    /\ ~lastClient.raised
    /\ Len(lastClient.secrets) = 2
    /\ lastClient.secrets[1].secret_name = S1 /\ lastClient.secrets[2].secret_name = S2

(***************************************************************************)
(* Properties of reload_certificates (SpecReload).                         *)
(***************************************************************************)
BothConfigured == Truthy(reload_url) /\ Truthy(stats_socket)

\* C7 (short-circuit): with both transports configured the first attempt of a
\* reload is the HTTP POST, and when it answers 200 there is no other attempt
\* and the reload returns success.
C7_ShortCircuit ==
    (lastReload.by # "none" /\ BothConfigured) =>
        /\ lastReload.attempts # << >>
        /\ lastReload.attempts[1][1] = "http"
        /\ lastReload.attempts[1] = <<"http", "status_200">> =>
               (Len(lastReload.attempts) = 1 /\ lastReload.result)

\* both configured, the POST answered 200, the socket was left alone
C7_Witness ==
    /\ BothConfigured
    /\ lastReload.attempts = << <<"http", "status_200">> >>
    /\ lastReload.result

Succeeded(a) == (a[1] = "http" /\ ReloadViaHttp(a[2])) \/ (a[1] = "socket" /\ ReloadViaSocket(a[2]))

\* C9 (reload result): a reload returns true exactly when no transport is
\* configured, and then it made no attempt, or when an attempt on a configured
\* transport succeeded; with a transport configured and every attempt failed
\* it returns false.
C9_ReloadResult ==
    lastReload.by # "none" =>
        /\ lastReload.result <=>
              \/ (~Truthy(reload_url) /\ ~Truthy(stats_socket))
              \/ \E i \in DOMAIN lastReload.attempts : Succeeded(lastReload.attempts[i])
        /\ (~Truthy(reload_url) /\ ~Truthy(stats_socket)) => lastReload.attempts = << >>
        /\ \A i \in DOMAIN lastReload.attempts :
              \/ lastReload.attempts[i][1] = "http" /\ Truthy(reload_url)
              \/ lastReload.attempts[i][1] = "socket" /\ Truthy(stats_socket)

\* no transport configured: success without an attempt
C9_Witness ==
    /\ lastReload.by = "direct"
    /\ ~Truthy(reload_url) /\ ~Truthy(stats_socket)
    /\ lastReload.attempts = << >>
    /\ lastReload.result

(***************************************************************************)
(* Properties of the bridge from the observer thread (Spec).               *)
(***************************************************************************)
\* C10 (bridge isolation): a notification that reaches the scheduler while it
\* is not running is dropped by every callback: nothing is handed to the
\* event loop for it, and no reload is attempted.
C10_BridgeIsolation ==
    [][(lastBridge'.callbacks > 0 /\ ~is_running) =>
          /\ lastBridge'.dropped = lastBridge'.callbacks
          /\ lastBridge'.scheduled = 0
          /\ loopQueue' = loopQueue
          /\ lastReload' = NoReload]_vars

\* a notification was dropped while start() had not finished
C10_Witness ==
    /\ lastBridge.dropped > 0
    /\ lastBridge.scheduled = 0
    /\ ~is_running
    /\ observer

\* C19 (bridge hand-off): a step of the observer thread attempts no reload
\* and runs nothing of the engine: it rescans the index and adds to the event
\* loop's queue what its callbacks handed over, and leaves the scheduler, the
\* directory, the tasks and the cycle records as they are.  Every reload for
\* a file change is a step of the event loop that takes one handed-over
\* coroutine off the queue, and no step of the observer thread.
C19_BridgeHandOff ==
    [][/\ obsPc' # obsPc =>
            /\ lastReload' = NoReload /\ lastCall' = NoCall
            /\ loopQueue' = loopQueue + lastBridge'.scheduled
            /\ UNCHANGED <<cfgVars, schedVars, diskVars, taskVars, countVars>>
            /\ UNCHANGED <<lastCycle, lastSave>>
       /\ lastReload'.by = "bridge" =>
            /\ loopQueue > 0 /\ loopQueue' = loopQueue - 1
            /\ obsPc' = obsPc /\ fsEvents' = fsEvents
            /\ lastBridge' = NoBridge]_vars

\* a file change was handed over and its reload has just run in the event
\* loop, while the observer thread is idle
C19_Witness ==
    /\ lastReload.by = "bridge"
    /\ lastReload.attempts # << >>
    /\ obsPc = "idle"
    /\ is_running

\* C20 (bridge no-drop): a notification that reaches the scheduler while it
\* is running, a sync cycle in progress or not, is handed to the event loop by
\* every callback and none is dropped; a coroutine handed to the event loop
\* is eventually run and attempts a reload; and the observer thread's step is
\* enabled whatever the engine is doing, as long as the queue has room.
C20_BridgeNoDrop ==
    /\ [][(lastBridge'.callbacks > 0 /\ is_running /\ event_loop) =>
             /\ lastBridge'.scheduled = lastBridge'.callbacks
             /\ lastBridge'.dropped = 0
             /\ loopQueue' = loopQueue + lastBridge'.callbacks]_vars
    /\ (loopQueue > 0) ~> (lastReload.by = "bridge")
    /\ []((obsPc = "scanning" /\ loopQueue + change_callbacks <= MaxEvents * MaxStarts)
             => ENABLED ObserverFinish)

\* a notification was handed over while a sync cycle was in progress
C20_Witness ==
    /\ lastBridge.scheduled > 0
    /\ lastBridge.dropped = 0
    /\ sync_in_progress
    /\ loopQueue > 0

\* start() was called and the stop() called last has returned
Stopped == ~is_running /\ lifePc = "idle" /\ change_callbacks > 0

\* C21 (shutdown ordering): when stop() returns the observer thread has been
\* stopped and joined: it is in no handler and no file event waits for it;
\* and as long as the scheduler stays stopped no callback is delivered and
\* nothing more is handed to the event loop.
C21_ShutdownOrdering ==
    /\ [](Stopped => ~observer /\ obsPc = "idle" /\ fsEvents = 0)
    /\ [][(Stopped /\ Stopped') =>
             /\ lastBridge' = NoBridge
             /\ loopQueue' <= loopQueue
             /\ obsPc' = obsPc /\ fsEvents' = fsEvents]_vars

\* stop() has returned while a coroutine handed over before it still waits in
\* the event loop
C21_Witness ==
    /\ Stopped
    /\ ~observer
    /\ loopQueue > 0

(***************************************************************************)
(* Properties of the decision and the naming (SpecDecision).  An entry of  *)
(* lastCycle.log tells what the cycle found for a secret before it acted:  *)
(* whether <name>.pem existed (hadFile), whether the index had a record of *)
(* it (hadRecord) and that record (local).                                 *)
(***************************************************************************)
\* C23 (update decision, missing or unparsable local record): the cycle
\* decides that an update is needed for every secret that has no local file,
\* or no record in the index, or a record whose certificate did not parse,
\* whatever its version marker and its content are.
C23_MissingOrUnparsable ==
    \A i \in 1..Len(lastCycle.log) :
        LET e == lastCycle.log[i]
        IN (~e.hadFile \/ ~e.hadRecord \/ e.local.serial_number = "unparsed") => e.needs


(***************************************************************************)
\* C26 (store index invariant): when the index is the result of a scan of
\* the directory as it is, every record of the index has its certificate
\* file and its key file on disk and a certificate that parsed; a file that
\* does not parse has no record.
C26_IndexInvariant ==
    certificates = ScanCertificates(certFile, keyFile) =>
        \A s \in DOMAIN certificates :
            /\ s \in DOMAIN certFile
            /\ s \in DOMAIN keyFile
            /\ certificates[s].serial_number # "unparsed"

\* C30 (identifier derivation): the name a descriptor is stored under is
\* derived from its domain-name field when it has one, and from the name of
\* the remote entry when it has no domain name.
C30_IdentifierDerivation ==
    \A i \in DOMAIN lastCycle.log :
        LET e == lastCycle.log[i]
            d == lastCycle.remote[i]
        IN IF Truthy(d.domain_name)
           THEN e.name = Replace(Replace(d.domain_name, "*", <<"wildcard">>), ".", <<"_">>)
           ELSE Truthy(d.name) =>
                  e.name = Replace(Replace(d.name, "/", <<"_">>), ":", <<"_">>)

\* a descriptor whose certificate or private key is missing or empty
Malformed(d) ==
    \/ d.certificate \in {Missing, Empty}
    \/ d.private_key \in {Missing, Empty}

\* C28 (malformed descriptors never installed): a descriptor whose certificate
\* or private key is missing or empty is never handed to save_certificate: it
\* does not count as updated, it raises nothing and the cycle records no error
\* that names it, and the step that handles it leaves the certificate file and
\* the key file of every name as they were.
C28_MalformedNeverInstalled ==
    /\ [](\A i \in DOMAIN lastCycle.log :
            Malformed(lastCycle.remote[i]) =>
                LET e == lastCycle.log[i]
                IN /\ e.saved = "no" /\ ~e.updated /\ ~e.raised
                   /\ <<"Sync error for", e.secret_name>> \notin Range(lastCycle.errors))
    /\ [][(/\ Len(lastCycle'.log) = Len(lastCycle.log) + 1
           /\ Malformed(lastCycle.remote[Len(lastCycle'.log)]))
          => (certFile' = certFile /\ keyFile' = keyFile)]_vars

\* a cycle succeeded whose descriptor carried a certificate and no private
\* key, for a name that has no file: an update was decided and nothing was
\* written
C28_Witness ==
    /\ lastCycle.exit = "success"
    /\ \E i \in DOMAIN lastCycle.log :
          LET e == lastCycle.log[i]
              d == lastCycle.remote[i]
          IN /\ d.certificate = CertB /\ d.private_key = Missing
             /\ e.needs /\ ~e.hadFile /\ e.saved = "no"
             /\ e.name \notin DOMAIN certFile

(***************************************************************************)
(* Properties of the installs of a cycle (SpecSync).                       *)
(***************************************************************************)
\* the entries of the log of the cycle whose save_certificate raised
FailedWrites == {i \in 1..Len(lastCycle.log) : lastCycle.log[i].saved = "failed"}

\* C24 (local write failure): in a cycle that has ended and in which the
\* install of a secret failed with a write error, that secret is not counted
\* as updated, an error naming it is in the error list, every secret that
\* was fetched has been handled, and the cycle has not failed.
C24_WriteFailure ==
    (lastCycle.exit \in {"success", "failed"} /\ FailedWrites # {}) =>
        /\ \A i \in FailedWrites :
               /\ ~lastCycle.log[i].updated
               /\ <<"Sync error for", lastCycle.log[i].secret_name>> \in Range(sync_errors)
        /\ Len(lastCycle.log) = Len(lastCycle.remote)
        /\ lastCycle.exit = "success" /\ lastCycle.success

\* some secret was installed in the cycle: its save_certificate returned
Installed == \E i \in 1..Len(lastCycle.log) : lastCycle.log[i].updated

C32_RecoveryAfterFailedInstall ==
    \A i \in DOMAIN lastCycle.log :
        LET e == lastCycle.log[i]
            d == lastCycle.remote[i]
        IN (/\ d \in Range(lastCycle.prevRemote)
            /\ ValidateCertificateSecret(d)
            /\ e.hadFile /\ e.hadRecord
            /\ e.local.cert_data = PemContent(d.certificate, ExtractChain(d))
            /\ e.local.key_data # d.private_key)
           => e.needs /\ e.saved # "no"

\* C33 (install/compare round trip): when a cycle handles a descriptor
\* without a marker that the cycle before fetched too, and the index holds
\* what an install of that descriptor writes to <name>.pem, with or without
\* a chain, the decision is "no update".
C33_InstallCompareRoundTrip ==
    \A i \in DOMAIN lastCycle.log :
        LET e == lastCycle.log[i]
            d == lastCycle.remote[i]
        IN (/\ d \in Range(lastCycle.prevRemote)
            /\ ~Truthy(d.last_changed_date)
            /\ ValidateCertificateSecret(d)
            /\ e.hadFile /\ e.hadRecord
            /\ e.local.cert_data = PemContent(d.certificate, ExtractChain(d)))
           => ~e.needs

\* C38 (frame of a no-change cycle): a step after which the cycle in progress
\* or just ended has decided "update" for no secret has written no
\* certificate file and no key file; so a cycle that decides "update" for
\* none of its secrets leaves the directory as it found it.
C38_NoChangeFrame ==
    [][(\A i \in DOMAIN lastCycle'.log : ~lastCycle'.log[i].needs)
        => (certFile' = certFile /\ keyFile' = keyFile)]_vars

\* a cycle has ended in success that handled two secrets or more and decided
\* "update" for none, "a.pem" holding a text that differs from the
\* certificate of secret "a" by its last newline
C38_Witness ==
    /\ lastCycle.exit = "success"
    /\ Len(lastCycle.log) >= 2
    /\ \A i \in DOMAIN lastCycle.log : ~lastCycle.log[i].needs
    /\ \E i \in DOMAIN lastCycle.log :
          /\ lastCycle.log[i].name = S1
          /\ FileOf(certFile, S1) # lastCycle.remote[i].certificate

C37_IdentifierUniqueness ==
    \A i, j \in DOMAIN lastCycle.log :
        (/\ i # j
         /\ lastCycle.log[i].secret_name # lastCycle.log[j].secret_name
         /\ lastCycle.log[i].saved = "ok"
         /\ lastCycle.log[j].saved = "ok")
        => lastCycle.log[i].name # lastCycle.log[j].name

(***************************************************************************)
(* Properties of the index beside the observer thread (Spec).              *)
(***************************************************************************)
\* C35 (index race): no write and no scan having failed, a cycle that handles
\* a descriptor without a marker whose certificate is the content of the
\* local file finds the file's record in the index and decides "no update",
\* whatever the observer thread is doing.
C35_IndexRace ==
    \A i \in DOMAIN lastCycle.log :
        LET e == lastCycle.log[i]
            d == lastCycle.remote[i]
        IN (/\ faults = 0
            /\ e.hadFile
            /\ ~Truthy(d.last_changed_date)
            /\ ValidateCertificateSecret(d)
            /\ Strip(FileOf(certFile, e.name)) = Strip(d.certificate)
            /\ FirstCert(d.certificate) # "unparsed")
           => e.hadRecord /\ ~e.needs

\* C36 (restart does not duplicate notifications): the monitor holds at most
\* one change callback of the scheduler, and one file event hands at most one
\* reload to the event loop.
C36_RestartNoDuplicate ==
    /\ change_callbacks <= 1
    /\ lastBridge.scheduled <= 1

(***************************************************************************)
(* Properties of an install beside the observer thread (SpecInstall).      *)
(***************************************************************************)
\* a certificate of one version with the private key of the other
MixedPair(c, k) ==
    \/ Strip(c) = Strip(CertA) /\ k = KeyL
    \/ Strip(c) = Strip(CertB) /\ k = KeyK

\* C29 (install versus watcher): the index never holds for an identifier the
\* certificate of one version paired with the key of the other, and no reload
\* is requested while the certificate file and the key file of an identifier
\* are of different versions.
C29_InstallVersusWatcher ==
    /\ \A s \in DOMAIN certificates :
          ~MixedPair(certificates[s].cert_data, certificates[s].key_data)
    /\ lastReload # NoReload =>
          \A s \in DOMAIN certFile : ~MixedPair(certFile[s], FileOf(keyFile, s))

(***************************************************************************)
(* Properties of the scan (SpecScan).                                      *)
(***************************************************************************)
\* C31 (scan is a full rebuild): a step that changes the index and leaves the
\* directory alone leaves in the index one entry for each *.pem file of the
\* directory whose load raised nothing, made of the file's content and of the
\* content of its key file, and nothing else: no entry of a file that was
\* deleted, and none of a file that cannot be read, whose failure does not
\* keep the other files out.
C31_ScanFullRebuild ==
    [][(certificates' # certificates /\ certFile' = certFile /\ keyFile' = keyFile)
        => /\ DOMAIN certificates' =
                 {s \in DOMAIN certFile : certFile[s] # Binary /\ FileOf(keyFile, s) # Binary}
           /\ \A s \in DOMAIN certificates' :
                 /\ certificates'[s].cert_data = certFile[s]
                 /\ certificates'[s].key_data =
                       (IF s \in DOMAIN keyFile THEN keyFile[s] ELSE None)]_vars

\* the index holds exactly "c": "a.pem" is gone, "b.pem" is there and cannot
\* be read
C31_Witness ==
    /\ S1 \notin DOMAIN certFile
    /\ S2 \in DOMAIN certFile /\ certFile[S2] = Binary
    /\ S3 \in DOMAIN certFile
    /\ DOMAIN certificates = {S3}

\* C34 (one reload per changing cycle): in SpecInstall every file event is
\* the event of a write of the service itself.  When the initial sync found
\* the directory up to date (it fetched the pair the directory holds) and
\* the scheduler is running, no reload is made for a file event: the only
\* reload is the one the cycle makes itself.
C34_OneReloadPerChangingCycle ==
    (/\ lastCycle.task = "manual"
     /\ lastCycle.prevExit = "success"
     /\ \A i \in DOMAIN lastCycle.prevRemote :
           /\ lastCycle.prevRemote[i].certificate = CertA
           /\ lastCycle.prevRemote[i].private_key = KeyK)
    => lastReload.by # "bridge"

(***************************************************************************)
(* Properties of the status surface and the error list (SpecStatus).       *)
(***************************************************************************)
\* C22 (status surface): at every point get_status() reports
\* sync_in_progress true exactly when a task is inside a sync cycle, and its
\* recent_errors are the last 5 entries of the error list (all of them when
\* there are fewer), in the order they were recorded.
C22_StatusSurface ==
    /\ GetStatus.sync_in_progress <=> InCycle # {}
    /\ LET r == GetStatus.recent_errors
           n == Len(sync_errors)
           k == IF n < 5 THEN n ELSE 5
       IN /\ Len(r) = k
          /\ \A i \in 1..k : r[i] = sync_errors[n - k + i]

\* a cycle is running, more than 5 errors were recorded, and the 5 reported
\* are not the 5 recorded first
C22_Witness ==
    /\ GetStatus.sync_in_progress
    /\ pc["manual"] = "fetch"
    /\ Len(sync_errors) > 5
    /\ lastCycle.prevExit = "failed"
    /\ GetStatus.recent_errors # SubSeq(sync_errors, 1, 5)

\* C27 (bounded error history): the error list of the scheduler never holds
\* more than 5 entries.
C27_BoundedErrors == Len(sync_errors) <= RecentN

=============================================================================
